---- MODULE Spec2Model ----
(***************************************************************************)
(* Share backend of eendraadschema: the HTTP handlers of package api       *)
(* (legacy password/session mode and OIDC mode) over the relational store  *)
(* of package store.                                                       *)
(*                                                                         *)
(* Strings the code trims or compares byte by byte (passwords, subjects)   *)
(* are sequences of one-character strings.  Times are clock ticks;         *)
(* time.Time.Unix() is the truncation of a tick count to whole seconds.    *)
(* uuid.NewString() is a fresh number drawn from a per-table counter.      *)
(***************************************************************************)
EXTENDS Integers, Sequences, FiniteSets, TLC

VARIABLES
    oidc,        \* API.oidc != nil (fixed at construction)
    apiPassword, \* cfg.APIPassword (fixed at construction)
    versionsMax, \* cfg.ShareVersionsMax (fixed at construction)
    verifier,    \* the OIDCVerifier built at start-up (NoVerifier without OIDC)
    faulty,      \* the best-effort store calls that fail at present
    now,         \* the wall clock, in ticks
    sessions,    \* table sessions: set of rows
    shares,      \* table shares: id -> row
    versions,    \* table share_versions: rows in insertion order
    users,       \* table users: sub -> row
    teams,       \* table teams: id -> row
    members,     \* table team_members: set of rows, key (teamId, userSub)
    invites,     \* table team_invites: token -> row
    nextShare,   \* uuid counters, one per kind of id
    nextTok,
    nextVer,
    nextTeam,
    nextInvite,
    issued,      \* history: the arguments of the CreateSession calls made by SessCreate
    accepting,   \* per client: its AcceptTeamInvite transaction between read and update
    updating,    \* per client: its handler between two of its steps (update, restore,
                 \* profile, key lookup)
    last,        \* the request handled last and the response written for it
    oidcAuth     \* the OidcAuth object of the frontend, with the promises it has made

vars == <<oidc, verifier, faulty, apiPassword, versionsMax, now, sessions, shares, versions, users, teams, members, invites,
          nextShare, nextTok, nextVer, nextTeam, nextInvite, issued, accepting, updating, last, oidcAuth>>

store == <<sessions, shares, versions, users, teams, members, invites>>

(***************************************************************************)
(* Bounds of the model.                                                    *)
(***************************************************************************)
TicksPerSec == 2
MaxTime == 3
MaxTimeOIDC == 1
MaxShares == 2
MaxTokens == 2
MaxVersions == 3
MaxTeams == 1
MaxInvites == 1
MaxPwLen == 3
MaxKeep == 3
MaxKeepLive == 1
MaxCallers == 2
MaxRenewals == 2
MaxClients == 2
MaxSecondsKeys == 31
FetchLog == 2

(***************************************************************************)
(* Configuration (config.Config), scaled to the model's clock.             *)
(***************************************************************************)
SessionTTL == 1
InviteTTL == 1
ShareVersionsMax == 1
AdminSubs == {<<"a">>}

(***************************************************************************)
(* Strings.                                                                *)
(***************************************************************************)
RECURSIVE TrimLeft(_)
TrimLeft(s) == IF s # <<>> /\ Head(s) = " " THEN TrimLeft(Tail(s)) ELSE s

RECURSIVE TrimRight(_)
TrimRight(s) ==
    IF s # <<>> /\ s[Len(s)] = " " THEN TrimRight(SubSeq(s, 1, Len(s) - 1)) ELSE s

TrimSpace(s) == TrimRight(TrimLeft(s))

Unix(t) == t \div TicksPerSec

Seconds(n) == n * TicksPerSec

\* subtle.ConstantTimeCompare: 1 iff equal length and no byte differs.
ConstantTimeCompare(x, y) ==
    IF Len(x) # Len(y) THEN 0
    ELSE IF \A i \in 1..Len(x) : x[i] = y[i] THEN 1 ELSE 0

\* passwordOK without the length test, comparing only the bytes the password has.
passwordOKPrefix(password) ==
    IF Len(password) > Len(apiPassword) THEN FALSE
    ELSE ConstantTimeCompare(password, SubSeq(apiPassword, 1, Len(password))) = 1

passwordOK(password) ==
    IF Len(password) # Len(apiPassword) THEN FALSE
    ELSE ConstantTimeCompare(password, apiPassword) = 1

\* strings.HasPrefix(schema, "EDS") || strings.HasPrefix(schema, "TXT");
\* a schema is <<tag, body>>, the empty schema is <<>>.
\* SchemaTagOK that accepts every schema that is not empty.
SchemaTagAny(schema) == schema # <<>>

SchemaTagOK(schema) == schema # <<>> /\ schema[1] \in {"EDS", "TXT"}

(***************************************************************************)
(* Store: sessions.                                                        *)
(***************************************************************************)
\* CreateSession that stores the creation time as the expiry.
CreateSessionNoTTL(sess, token, shareID, expiresAt, t) ==
    IF \E s \in sess : s.token = token THEN sess
    ELSE sess \cup {[token |-> token, shareId |-> shareID,
                     expiresAt |-> Unix(t), createdAt |-> Unix(t)]}

CreateSession(sess, token, shareID, expiresAt, t) ==
    IF \E s \in sess : s.token = token THEN sess
    ELSE sess \cup {[token |-> token, shareId |-> shareID,
                     expiresAt |-> Unix(expiresAt), createdAt |-> Unix(t)]}

\* GetSessionShareID with the expiry test off by one second (> for >=).
GetSessionShareIDLate(sess, token, t) ==
    LET rows == {s \in sess : s.token = token} IN
    IF rows = {} THEN [found |-> FALSE, shareId |-> 0, sessions |-> sess]
    ELSE LET m == CHOOSE s \in rows : TRUE IN
         IF Unix(t) > m.expiresAt
         THEN [found |-> FALSE, shareId |-> 0, sessions |-> sess \ rows]
         ELSE [found |-> TRUE, shareId |-> m.shareId, sessions |-> sess]

\* [found, shareId, sessions]: the row's share id, or not-found; an expired row
\* is deleted by the lookup.
GetSessionShareID(sess, token, t) ==
    LET rows == {s \in sess : s.token = token} IN
    IF rows = {} THEN [found |-> FALSE, shareId |-> 0, sessions |-> sess]
    ELSE LET m == CHOOSE s \in rows : TRUE IN
         IF Unix(t) >= m.expiresAt
         THEN [found |-> FALSE, shareId |-> 0, sessions |-> sess \ rows]
         ELSE [found |-> TRUE, shareId |-> m.shareId, sessions |-> sess]

\* CleanupExpiredSessions that keeps the rows expiring in the present second.
CleanupExpiredSessionsLate(sess, t) == {s \in sess : ~(s.expiresAt < Unix(t))}

CleanupExpiredSessions(sess, t) == {s \in sess : ~(s.expiresAt <= Unix(t))}

(***************************************************************************)
(* API: legacy authorization.  A cookie token of 0 is the absent cookie.   *)
(***************************************************************************)
\* hasValidSession with the lookup's error ignored: any cookie present counts.
hasValidSessionAnyCookie(sess, tok, t) == [ok |-> tok # 0, sessions |-> sess]

\* hasValidSession that first deletes every expired session row, as requireAuth does.
hasValidSessionCleanup(sess, tok, t) ==
    LET kept == CleanupExpiredSessions(sess, t) IN
    IF tok = 0 THEN [ok |-> FALSE, sessions |-> kept]
    ELSE [ok |-> \E s \in kept : s.token = tok, sessions |-> kept]

\* [ok, sessions]
hasValidSession(sess, tok, t) ==
    IF tok = 0 THEN [ok |-> FALSE, sessions |-> sess]
    ELSE LET r == GetSessionShareID(sess, tok, t) IN
         [ok |-> r.found, sessions |-> r.sessions]

\* requireAuth with the password checked before the session.
requireAuthPasswordFirst(sess, tok, t, password, shareIDForSession, newTok) ==
    LET cleaned == CleanupExpiredSessions(sess, t)
        hv == hasValidSession(cleaned, tok, t)
    IN
    IF TrimSpace(password) # <<>> /\ ~passwordOK(password)
    THEN [ok |-> FALSE, status |-> 401, code |-> "invalid_password",
          sessions |-> hv.sessions, cookie |-> 0]
    ELSE IF hv.ok
    THEN [ok |-> TRUE, status |-> 0, code |-> "", sessions |-> hv.sessions, cookie |-> 0]
    ELSE IF TrimSpace(password) = <<>>
    THEN [ok |-> FALSE, status |-> 401, code |-> "password_required",
          sessions |-> hv.sessions, cookie |-> 0]
    ELSE IF shareIDForSession # 0
    THEN [ok |-> TRUE, status |-> 0, code |-> "",
          sessions |-> CreateSession(hv.sessions, newTok, shareIDForSession,
                                     t + Seconds(SessionTTL), t),
          cookie |-> newTok]
    ELSE [ok |-> TRUE, status |-> 0, code |-> "", sessions |-> hv.sessions, cookie |-> 0]

\* [ok, status, code, sessions, cookie]: cookie is the token set by Set-Cookie, 0 if none.
requireAuth(sess, tok, t, password, shareIDForSession, newTok) ==
    LET cleaned == CleanupExpiredSessions(sess, t)
        hv == hasValidSession(cleaned, tok, t)
    IN
    IF hv.ok
    THEN [ok |-> TRUE, status |-> 0, code |-> "", sessions |-> hv.sessions, cookie |-> 0]
    ELSE IF TrimSpace(password) = <<>>
    THEN [ok |-> FALSE, status |-> 401, code |-> "password_required",
          sessions |-> hv.sessions, cookie |-> 0]
    ELSE IF ~passwordOK(password)
    THEN [ok |-> FALSE, status |-> 401, code |-> "invalid_password",
          sessions |-> hv.sessions, cookie |-> 0]
    ELSE IF shareIDForSession # 0
    THEN [ok |-> TRUE, status |-> 0, code |-> "",
          sessions |-> IF "session" \in faulty THEN hv.sessions
                       ELSE CreateSession(hv.sessions, newTok, shareIDForSession,
                                          t + Seconds(SessionTTL), t),
          cookie |-> newTok]
    ELSE [ok |-> TRUE, status |-> 0, code |-> "", sessions |-> hv.sessions, cookie |-> 0]

(***************************************************************************)
(* Store: users.  The key of users is the trimmed subject.                 *)
(***************************************************************************)
\* UpsertOIDCUser that overwrites the profile of a known user (ON CONFLICT DO UPDATE).
UpsertOIDCUserOverwrite(usr, sub, email, name, t) ==
    LET k == TrimSpace(sub) IN
    IF k = <<>> THEN usr
    ELSE [x \in DOMAIN usr \cup {k} |->
            IF x # k THEN usr[x]
            ELSE [email |-> TrimSpace(email), name |-> TrimSpace(name),
                  isAdmin |-> IF k \in DOMAIN usr THEN usr[k].isAdmin ELSE FALSE,
                  createdAt |-> IF k \in DOMAIN usr THEN usr[k].createdAt ELSE Unix(t),
                  updatedAt |-> Unix(t), lastSeenAt |-> Unix(t)]]

UpsertOIDCUser(usr, sub, email, name, t) ==
    LET k == TrimSpace(sub) IN
    IF k = <<>> THEN usr
    ELSE LET created ==
                 IF k \in DOMAIN usr THEN usr
                 ELSE [x \in DOMAIN usr \cup {k} |->
                         IF x = k
                         THEN [email |-> TrimSpace(email), name |-> TrimSpace(name),
                               isAdmin |-> FALSE, createdAt |-> Unix(t),
                               updatedAt |-> Unix(t), lastSeenAt |-> Unix(t)]
                         ELSE usr[x]]
         IN [created EXCEPT ![k].lastSeenAt = Unix(t), ![k].updatedAt = Unix(t)]

\* [err, users]: err is "" | "invalid" | "not_found"
SetUserAdmin(usr, sub, isAdmin, t) ==
    LET k == TrimSpace(sub) IN
    IF k = <<>> THEN [err |-> "invalid", users |-> usr]
    ELSE IF k \notin DOMAIN usr THEN [err |-> "not_found", users |-> usr]
    ELSE [err |-> "",
          users |-> [usr EXCEPT ![k].isAdmin = isAdmin, ![k].updatedAt = Unix(t)]]

IsUserAdmin(usr, sub) ==
    LET k == TrimSpace(sub) IN
    IF k = <<>> THEN FALSE
    ELSE IF k \notin DOMAIN usr THEN FALSE
    ELSE usr[k].isAdmin

(***************************************************************************)
(* Store: shares and their versions.  A team id of 0 is SQL NULL.          *)
(***************************************************************************)
CreateShare(shr, id, name, schema, ownerSub, teamID, t) ==
    [x \in DOMAIN shr \cup {id} |->
        IF x = id
        THEN [schema |-> schema, name |-> name, ownerSub |-> TrimSpace(ownerSub),
              teamId |-> teamID, createdAt |-> Unix(t), updatedAt |-> Unix(t)]
        ELSE shr[x]]

\* UpdateShare that leaves the live schema as it is.
UpdateShareTouch(shr, id, schema, t) ==
    IF id \notin DOMAIN shr THEN [err |-> "not_found", shares |-> shr]
    ELSE [err |-> "", shares |-> [shr EXCEPT ![id].updatedAt = Unix(t)]]

\* [err, shares]
UpdateShare(shr, id, schema, t) ==
    IF id \notin DOMAIN shr THEN [err |-> "not_found", shares |-> shr]
    ELSE [err |-> "",
          shares |-> [shr EXCEPT ![id].schema = schema, ![id].updatedAt = Unix(t)]]

\* [err, shares]; schemaPtr and namePtr are [set, v]: set = FALSE is the nil pointer.
UpdateShareFields(shr, id, schemaPtr, namePtr, t) ==
    IF id \notin DOMAIN shr THEN [err |-> "not_found", shares |-> shr]
    ELSE [err |-> "",
          shares |-> [shr EXCEPT
              ![id].schema = IF schemaPtr.set THEN schemaPtr.v ELSE @,
              ![id].name = IF namePtr.set THEN namePtr.v ELSE @,
              ![id].updatedAt = Unix(t)]]

\* [err, shares]
DeleteShare(shr, id) ==
    IF id \notin DOMAIN shr THEN [err |-> "not_found", shares |-> shr]
    ELSE [err |-> "", shares |-> [x \in DOMAIN shr \ {id} |-> shr[x]]]

\* AddShareVersion that overwrites the row written last instead of inserting one.
AddShareVersionInPlace(vers, versionID, shareID, schema, createdBySub, t) ==
    LET row == [id |-> versionID, shareId |-> shareID, schema |-> schema,
                createdAt |-> Unix(t), createdBySub |-> TrimSpace(createdBySub)]
    IN IF vers = <<>> THEN <<row>> ELSE [vers EXCEPT ![Len(vers)] = row]

AddShareVersion(vers, versionID, shareID, schema, createdBySub, t) ==
    Append(vers, [id |-> versionID, shareId |-> shareID, schema |-> schema,
                  createdAt |-> Unix(t), createdBySub |-> TrimSpace(createdBySub)])

\* [found, schema]
GetShareVersion(vers, shareID, versionID) ==
    LET hit == {i \in 1..Len(vers) : vers[i].id = versionID /\ vers[i].shareId = shareID} IN
    IF hit = {} THEN [found |-> FALSE, schema |-> <<>>]
    ELSE [found |-> TRUE, schema |-> vers[CHOOSE i \in hit : TRUE].schema]

\* The rows of vers at the positions in keepIdx, in insertion order.
RECURSIVE SelectRows(_, _, _)
SelectRows(vers, keepIdx, i) ==
    IF i > Len(vers) THEN <<>>
    ELSE IF i \in keepIdx THEN <<vers[i]>> \o SelectRows(vers, keepIdx, i + 1)
    ELSE SelectRows(vers, keepIdx, i + 1)

\* The tables PruneShareVersions can leave: it deletes the rows of the share beyond the
\* first `keep` of ORDER BY created_at DESC.  The order of rows with equal created_at is
\* the database's choice, so every set of `keep` rows that no deleted row is newer than
\* is a possible outcome.
PruneShareVersions(vers, shareID, keep) ==
    IF keep <= 0 THEN {vers}
    ELSE LET mine == {i \in 1..Len(vers) : vers[i].shareId = shareID}
             others == (1..Len(vers)) \ mine
         IN
         IF Cardinality(mine) <= keep THEN {vers}
         ELSE {SelectRows(vers, others \cup K, 1) :
                  K \in {K \in SUBSET mine :
                            /\ Cardinality(K) = keep
                            /\ \A i \in K, j \in mine \ K :
                                   vers[i].createdAt >= vers[j].createdAt}}

\* LIMIT of the SELECT in the loop of PruneShareVersions, scaled to the model's tables.
PruneLimit == 1

\* What the SELECT of one pass may return: the ids of the first PruneLimit rows of the
\* share after the first `offset` of ORDER BY created_at DESC, the order of rows with
\* equal created_at being the database's choice.
oldRowsAt(vers, shareID, offset) ==
    LET mine == {i \in 1..Len(vers) : vers[i].shareId = shareID}
        rest == Cardinality(mine) - offset
        n == IF rest < PruneLimit THEN rest ELSE PruneLimit
    IN IF rest <= 0 THEN {{}}
       ELSE {{vers[i].id : i \in C} :
                C \in {C \in SUBSET mine :
                          /\ Cardinality(C) = n
                          /\ \E K \in SUBSET (mine \ C) :
                                /\ Cardinality(K) = offset
                                /\ \A i \in K, j \in mine \ K :
                                       vers[i].createdAt >= vers[j].createdAt
                                /\ \A i \in C, j \in mine \ (K \cup C) :
                                       vers[i].createdAt >= vers[j].createdAt}}

\* The SELECT with OFFSET keep + 1.
oldRowsLate(vers, shareID, keep) == oldRowsAt(vers, shareID, keep + 1)

\* The SELECT of a pass of PruneShareVersions: OFFSET keep.
oldRows(vers, shareID, keep) == oldRowsAt(vers, shareID, keep)

\* A DELETE that removes no row.
deleteRowsNone(vers, ids) == vers

\* The DELETE of a pass: the rows with the ids selected, those still there.
deleteRows(vers, ids) == SelectRows(vers, {i \in 1..Len(vers) : vers[i].id \notin ids}, 1)

(***************************************************************************)
(* Store: teams, members, invites.                                         *)
(***************************************************************************)
\* CreateTeam that inserts the team row alone.
CreateTeamOnly(tms, mbs, id, name, ownerSub, t) ==
    LET o == TrimSpace(ownerSub) IN
    IF o = <<>> \/ TrimSpace(name) = <<>> THEN [err |-> "invalid", teams |-> tms, members |-> mbs]
    ELSE [err |-> "",
          teams |-> [x \in DOMAIN tms \cup {id} |->
                        IF x = id
                        THEN [name |-> TrimSpace(name), ownerSub |-> o, createdAt |-> Unix(t)]
                        ELSE tms[x]],
          members |-> mbs]

\* [teams, members]: one transaction
CreateTeam(tms, mbs, id, name, ownerSub, t) ==
    LET o == TrimSpace(ownerSub) IN
    IF o = <<>> \/ TrimSpace(name) = <<>> THEN [err |-> "invalid", teams |-> tms, members |-> mbs]
    ELSE [err |-> "",
          teams |-> [x \in DOMAIN tms \cup {id} |->
                        IF x = id
                        THEN [name |-> TrimSpace(name), ownerSub |-> o, createdAt |-> Unix(t)]
                        ELSE tms[x]],
          members |-> mbs \cup {[teamId |-> id, userSub |-> o, role |-> "owner",
                                 createdAt |-> Unix(t)]}]

\* IsTeamMember that finds every user a member.
IsTeamMemberAny(mbs, teamID, userSub) == [role |-> "member", found |-> TRUE]

\* [role, found]
IsTeamMember(mbs, teamID, userSub) ==
    LET rows == {m \in mbs : m.teamId = teamID /\ m.userSub = TrimSpace(userSub)} IN
    IF rows = {} THEN [role |-> "", found |-> FALSE]
    ELSE [role |-> (CHOOSE m \in rows : TRUE).role, found |-> TRUE]

NullString == [valid |-> FALSE, v |-> <<>>]
NullInt == [valid |-> FALSE, v |-> 0]

CreateTeamInvite(inv, token, teamID, email, createdBySub, expiresAt, t) ==
    [x \in DOMAIN inv \cup {token} |->
        IF x = token
        THEN [teamId |-> teamID, email |-> TrimSpace(email),
              createdBySub |-> TrimSpace(createdBySub), createdAt |-> Unix(t),
              expiresAt |-> Unix(expiresAt),
              acceptedBySub |-> NullString, acceptedAt |-> NullInt]
        ELSE inv[x]]

\* AcceptTeamInviteRead that refuses an invite already accepted.
AcceptTeamInviteReadOnce(inv, token, acceptedBySub, t) ==
    LET a == TrimSpace(acceptedBySub) IN
    IF a = <<>> THEN [err |-> "invalid", done |-> TRUE, teamId |-> 0]
    ELSE IF token \notin DOMAIN inv THEN [err |-> "not_found", done |-> TRUE, teamId |-> 0]
    ELSE IF inv[token].acceptedAt.valid \/ Unix(t) > inv[token].expiresAt
    THEN [err |-> "not_found", done |-> TRUE, teamId |-> 0]
    ELSE [err |-> "", done |-> FALSE, teamId |-> inv[token].teamId]

\* AcceptTeamInviteRead without the expiry test.
AcceptTeamInviteReadNoExpiry(inv, token, acceptedBySub, t) ==
    LET a == TrimSpace(acceptedBySub) IN
    IF a = <<>> THEN [err |-> "invalid", done |-> TRUE, teamId |-> 0]
    ELSE IF token \notin DOMAIN inv THEN [err |-> "not_found", done |-> TRUE, teamId |-> 0]
    ELSE IF inv[token].acceptedAt.valid
    THEN [err |-> "", done |-> TRUE, teamId |-> inv[token].teamId]
    ELSE [err |-> "", done |-> FALSE, teamId |-> inv[token].teamId]

\* The transaction of AcceptTeamInvite up to its UPDATE: the invite is read and tested.
\* [err, done, teamId]; done: the transaction ends here, with err or with teamId.
AcceptTeamInviteRead(inv, token, acceptedBySub, t) ==
    LET a == TrimSpace(acceptedBySub) IN
    IF a = <<>> THEN [err |-> "invalid", done |-> TRUE, teamId |-> 0]
    ELSE IF token \notin DOMAIN inv THEN [err |-> "not_found", done |-> TRUE, teamId |-> 0]
    ELSE IF inv[token].acceptedAt.valid
    THEN [err |-> "", done |-> TRUE, teamId |-> inv[token].teamId]
    ELSE IF Unix(t) > inv[token].expiresAt
    THEN [err |-> "not_found", done |-> TRUE, teamId |-> 0]
    ELSE [err |-> "", done |-> FALSE, teamId |-> inv[token].teamId]

\* AcceptTeamInviteWrite whose INSERT has no ON CONFLICT clause on a table without key.
AcceptTeamInviteWriteDup(inv, mbs, token, acceptedBySub, teamID, t) ==
    LET a == TrimSpace(acceptedBySub) IN
    IF inv[token].acceptedAt.valid
    THEN [err |-> "not_found", teamId |-> 0, invites |-> inv, members |-> mbs]
    ELSE [err |-> "", teamId |-> teamID,
          invites |-> [inv EXCEPT ![token].acceptedBySub = [valid |-> TRUE, v |-> a],
                                  ![token].acceptedAt = [valid |-> TRUE, v |-> Unix(t)]],
          members |-> mbs \cup {[teamId |-> teamID, userSub |-> a,
                                 role |-> "member", createdAt |-> Unix(t)]}]

\* AcceptTeamInviteWrite whose UPDATE has no `accepted_at IS NULL` condition.
AcceptTeamInviteWriteAny(inv, mbs, token, acceptedBySub, teamID, t) ==
    LET a == TrimSpace(acceptedBySub) IN
    [err |-> "", teamId |-> teamID,
     invites |-> [inv EXCEPT ![token].acceptedBySub = [valid |-> TRUE, v |-> a],
                             ![token].acceptedAt = [valid |-> TRUE, v |-> Unix(t)]],
     members |->
         IF \E m \in mbs : m.teamId = teamID /\ m.userSub = a
         THEN mbs
         ELSE mbs \cup {[teamId |-> teamID, userSub |-> a,
                         role |-> "member", createdAt |-> Unix(t)]}]

\* AcceptTeamInviteWrite whose INSERT updates the row on conflict.
AcceptTeamInviteWriteUpsert(inv, mbs, token, acceptedBySub, teamID, t) ==
    LET a == TrimSpace(acceptedBySub) IN
    IF inv[token].acceptedAt.valid
    THEN [err |-> "not_found", teamId |-> 0, invites |-> inv, members |-> mbs]
    ELSE [err |-> "", teamId |-> teamID,
          invites |-> [inv EXCEPT ![token].acceptedBySub = [valid |-> TRUE, v |-> a],
                                  ![token].acceptedAt = [valid |-> TRUE, v |-> Unix(t)]],
          members |-> {m \in mbs : ~(m.teamId = teamID /\ m.userSub = a)}
                      \cup {[teamId |-> teamID, userSub |-> a,
                              role |-> "member", createdAt |-> Unix(t)]}]

\* The rest of the transaction: the UPDATE of the invite where accepted_at IS NULL, which
\* a transaction committed since the read makes affect no row, and the INSERT of the
\* membership with ON CONFLICT DO NOTHING.  teamID is inv.TeamID as read.
\* [err, teamId, invites, members]
AcceptTeamInviteWrite(inv, mbs, token, acceptedBySub, teamID, t) ==
    LET a == TrimSpace(acceptedBySub) IN
    IF inv[token].acceptedAt.valid
    THEN [err |-> "not_found", teamId |-> 0, invites |-> inv, members |-> mbs]
    ELSE [err |-> "", teamId |-> teamID,
          invites |-> [inv EXCEPT ![token].acceptedBySub = [valid |-> TRUE, v |-> a],
                                  ![token].acceptedAt = [valid |-> TRUE, v |-> Unix(t)]],
          members |->
              IF \E m \in mbs : m.teamId = teamID /\ m.userSub = a
              THEN mbs
              ELSE mbs \cup {[teamId |-> teamID, userSub |-> a,
                              role |-> "member", createdAt |-> Unix(t)]}]

\* [err, teamId, invites, members]: the transaction run with no other in between
AcceptTeamInvite(inv, mbs, token, acceptedBySub, t) ==
    LET rd == AcceptTeamInviteRead(inv, token, acceptedBySub, t) IN
    IF rd.done THEN [err |-> rd.err, teamId |-> rd.teamId, invites |-> inv, members |-> mbs]
    ELSE AcceptTeamInviteWrite(inv, mbs, token, acceptedBySub, rd.teamId, t)

(***************************************************************************)
(* Bearer tokens.  A request carries no usable Authorization header (kind  *)
(* "none"), a token that ParseWithClaims refuses: malformed, expired, with *)
(* a bad signature or an unknown key (kind "bad"), or a token that parses  *)
(* (kind "jwt") with its claims sub, iss, aud, email and name.             *)
(***************************************************************************)
RECURSIVE TrimRightSlash(_)
\* strings.TrimRight(s, "/")
TrimRightSlash(s) ==
    IF s # <<>> /\ s[Len(s)] = "/" THEN TrimRightSlash(SubSeq(s, 1, Len(s) - 1)) ELSE s

RECURSIVE Split(_, _)
\* strings.Split(s, sep), sep one character
Split(s, sep) ==
    IF \A i \in 1..Len(s) : s[i] # sep THEN <<s>>
    ELSE LET k == CHOOSE i \in 1..Len(s) : s[i] = sep /\ \A j \in 1..(i - 1) : s[j] # sep
         IN <<SubSeq(s, 1, k - 1)>> \o Split(SubSeq(s, k + 1, Len(s)), sep)

\* parseAudiences that returns no audience when none is configured.
parseAudiencesNoFallback(raw, fallback) ==
    LET parts == Split(raw, ",")
        trimmed == [i \in 1..Len(parts) |-> TrimSpace(parts[i])]
    IN SelectSeq(trimmed, LAMBDA q : q # <<>>)

parseAudiences(raw, fallback) ==
    IF TrimSpace(raw) = <<>> THEN <<fallback>>
    ELSE LET parts == Split(raw, ",")
             trimmed == [i \in 1..Len(parts) |-> TrimSpace(parts[i])]
             out == SelectSeq(trimmed, LAMBDA q : q # <<>>)
         IN IF Len(out) = 0 THEN <<fallback>> ELSE out

NoVerifier == [ok |-> FALSE, issuerURL |-> <<>>, clientID |-> <<>>, audiences |-> <<>>,
               keys |-> {}, keysFetched |-> 0, fetches |-> <<>>]

\* The key ids of the key set the identity provider serves when the service starts.
StartKeys == {<<"1">>}

\* The debounce of the key refresh in keyFunc, in seconds.
KeysDebounce == 30

\* A response of the key-set endpoint: err for a request that fails, times out, is
\* answered outside 2xx or carries no JSON; otherwise its keys, each with its kid and
\* whether jwkToPublicKey accepts it.
NoResponse == [err |-> TRUE, keys |-> {}]
ResponsesOf(sets) ==
    {[err |-> FALSE, keys |-> {[kid |-> k, good |-> TRUE] : k \in set}] : set \in sets}

\* refreshKeys that installs whatever the response yields, usable keys or none.
refreshKeysAnySet(v, resp, t) ==
    LET keys == {TrimSpace(k.kid) : k \in {j \in resp.keys : TrimSpace(j.kid) # <<>> /\ j.good}}
    IN IF resp.err THEN [err |-> TRUE, v |-> v]
       ELSE [err |-> FALSE, v |-> [v EXCEPT !.keys = keys, !.keysFetched = t]]

\* [err, v]: the error returned and the verifier afterwards.
refreshKeys(v, resp, t) ==
    LET keys == {TrimSpace(k.kid) : k \in {j \in resp.keys : TrimSpace(j.kid) # <<>> /\ j.good}}
    IN IF resp.err THEN [err |-> TRUE, v |-> v]
       ELSE IF keys = {} THEN [err |-> TRUE, v |-> v]
       ELSE [err |-> FALSE, v |-> [v EXCEPT !.keys = keys, !.keysFetched = t]]

\* [ok, issuerURL, clientID, audiences, keys, keysFetched, fetches]; ok is FALSE when the
\* constructor returns an error (ErrOIDCNotEnabled, or the error of its refreshKeys).
\* The constructor fetches the key set (at time 0, when the service starts); fetches is
\* the history of the times at which the latest key-set requests were sent.
NewOIDCVerifierFrom(cfg, resp) ==
    LET issuer == TrimSpace(cfg.OIDCIssuerURL)
        clientID == TrimSpace(cfg.OIDCClientID)
        v == [ok |-> TRUE, issuerURL |-> TrimRightSlash(issuer), clientID |-> clientID,
              audiences |-> parseAudiences(cfg.OIDCAudience, clientID),
              keys |-> {}, keysFetched |-> 0, fetches |-> <<0>>]
        r == refreshKeys(v, resp, 0)
    IN IF issuer = <<>> \/ clientID = <<>> THEN NoVerifier
       ELSE IF r.err THEN NoVerifier
       ELSE r.v

\* The constructor with the identity provider serving StartKeys.
NewOIDCVerifier(cfg) ==
    NewOIDCVerifierFrom(cfg, CHOOSE r \in ResponsesOf({StartKeys}) : TRUE)

\* The configuration of the deployments with OIDC.
Config == [OIDCIssuerURL |-> <<"i", "/">>, OIDCClientID |-> <<"c">>, OIDCAudience |-> <<>>]

audAllowed(tokenAud, allowed) ==
    IF Len(allowed) = 0 THEN TRUE
    ELSE \E i \in 1..Len(tokenAud), j \in 1..Len(allowed) : tokenAud[i] = allowed[j]

\* VerifyToken without the issuer test.
VerifyTokenAnyIssuer(v, tok) ==
    IF tok.kind # "jwt" \/ TrimSpace(tok.kid) \notin v.keys
       \/ TrimSpace(tok.sub) = <<>> \/ TrimSpace(tok.iss) = <<>>
       \/ ~audAllowed(tok.aud, v.audiences)
    THEN [ok |-> FALSE, sub |-> <<>>, email |-> <<>>, name |-> <<>>]
    ELSE [ok |-> TRUE, sub |-> tok.sub, email |-> TrimSpace(tok.email),
          name |-> TrimSpace(tok.name)]

\* [ok, sub, email, name]; the verification against the key cache as it stands (the
\* refresh of the cache is in the steps of keyFunc).
VerifyToken(v, tok) ==
    LET fail == [ok |-> FALSE, sub |-> <<>>, email |-> <<>>, name |-> <<>>] IN
    IF tok.kind # "jwt" THEN fail
    ELSE IF TrimSpace(tok.kid) = <<>> THEN fail
    ELSE IF TrimSpace(tok.kid) \notin v.keys THEN fail
    ELSE IF TrimSpace(tok.sub) = <<>> THEN fail
    ELSE IF TrimSpace(tok.iss) = <<>> THEN fail
    ELSE IF TrimRightSlash(tok.iss) # v.issuerURL THEN fail
    ELSE IF ~audAllowed(tok.aud, v.audiences) THEN fail
    ELSE [ok |-> TRUE, sub |-> tok.sub, email |-> TrimSpace(tok.email),
          name |-> TrimSpace(tok.name)]

\* VerifyRequest that takes any token presented, without verifying it.
VerifyRequestUnchecked(bearer) ==
    IF bearer.kind = "none" THEN [ok |-> FALSE, sub |-> <<>>, email |-> <<>>, name |-> <<>>]
    ELSE [ok |-> TRUE, sub |-> bearer.sub, email |-> TrimSpace(bearer.email),
          name |-> TrimSpace(bearer.name)]

\* [ok, sub, email, name]
VerifyRequest(bearer) ==
    IF TrimSpace(verifier.issuerURL) = <<>>
    THEN [ok |-> FALSE, sub |-> <<>>, email |-> <<>>, name |-> <<>>]
    ELSE IF bearer.kind = "none"
    THEN [ok |-> FALSE, sub |-> <<>>, email |-> <<>>, name |-> <<>>]
    ELSE VerifyToken(verifier, bearer)

isBootstrapAdmin(sub) ==
    IF TrimSpace(sub) = <<>> THEN FALSE ELSE sub \in AdminSubs

\* The rest of requireUser once VerifyRequest has returned u.
requireUserAs(u, usr, t) ==
    IF ~u.ok
    THEN [ok |-> FALSE, status |-> 401, code |-> "unauthorized", sub |-> <<>>, users |-> usr]
    ELSE LET up == IF "upsert" \in faulty THEN usr
                   ELSE UpsertOIDCUser(usr, u.sub, u.email, u.name, t)
         IN
         [ok |-> TRUE, status |-> 0, code |-> "", sub |-> u.sub,
          users |-> IF isBootstrapAdmin(u.sub)
                    THEN (IF "grant" \in faulty THEN up
                          ELSE SetUserAdmin(up, u.sub, TRUE, t).users)
                    ELSE up]

\* [ok, status, code, sub, users]
requireUser(enabled, usr, bearer, t) ==
    IF ~enabled
    THEN [ok |-> FALSE, status |-> 401, code |-> "oidc_not_enabled", sub |-> <<>>, users |-> usr]
    ELSE requireUserAs(VerifyRequest(bearer), usr, t)

\* requireAdminUser without the isAdmin test.
requireAdminUserNoFlag(enabled, usr, bearer, t) == requireUser(enabled, usr, bearer, t)

\* [ok, status, code, sub, users]
requireAdminUser(enabled, usr, bearer, t) ==
    LET r == requireUser(enabled, usr, bearer, t) IN
    IF ~r.ok THEN r
    ELSE IF ~IsUserAdmin(r.users, r.sub)
    THEN [r EXCEPT !.ok = FALSE, !.status = 403, !.code = "forbidden"]
    ELSE r

(***************************************************************************)
(* Requests and responses.                                                 *)
(***************************************************************************)
NoBearer == [kind |-> "none", kid |-> <<>>, sub |-> <<>>, iss |-> <<>>, aud |-> <<>>,
             email |-> <<>>, name |-> <<>>]
BadBearer == [NoBearer EXCEPT !.kind = "bad"]
NilPtr == [set |-> FALSE, v |-> <<>>]

\* The fields of a request that some handler reads; a handler's request sets its own.
\* bad: the body fails dec.Decode (over the size cap, not JSON, or with an unknown field).
Req0 == [id |-> 0, ver |-> 0, tok |-> 0, pw |-> <<>>, bearer |-> NoBearer, schema |-> <<>>,
         name |-> NilPtr, teamId |-> 0, sub |-> <<>>, isAdmin |-> FALSE, bad |-> FALSE]

\* What handling a request leaves: the tables, the share whose versions are pruned at the
\* end (0: none), the share deleted (0: none), the uuids drawn, the time the handler read
\* as now, and the response: its status and code, and the number of responses the handler
\* wrote (writes).
Same == [sessions |-> sessions, shares |-> shares, versions |-> versions, users |-> users,
         teams |-> teams, members |-> members, invites |-> invites,
         prune |-> 0, cascade |-> 0, drawn |-> {}, at |-> now,
         status |-> 0, code |-> "", cookie |-> 0, body |-> <<>>, who |-> <<>>,
         writes |-> 0]

\* The status line goes out with the first response written; a later one only adds its
\* body to the bytes sent.
writeError(o, status, code) ==
    IF o.writes > 0 THEN [o EXCEPT !.writes = @ + 1]
    ELSE [o EXCEPT !.status = status, !.code = code, !.writes = 1]

writeJSON(o, status) ==
    IF o.writes > 0 THEN [o EXCEPT !.writes = @ + 1]
    ELSE [o EXCEPT !.status = status, !.code = "ok", !.writes = 1]

Answer(op, req, o) ==
    /\ last.op = "idle"
    /\ ("share" \in o.drawn) => nextShare <= MaxShares
    /\ ("tok" \in o.drawn) => nextTok <= MaxTokens
    /\ ("ver" \in o.drawn) => nextVer <= MaxVersions
    /\ ("team" \in o.drawn) => nextTeam <= MaxTeams
    /\ ("invite" \in o.drawn) => nextInvite <= MaxInvites
    /\ shares' = o.shares
    /\ \E cascades \in (IF o.cascade # 0 THEN BOOLEAN ELSE {FALSE}) :
          \* whether DeleteShare cascades to the share's sessions and versions
          /\ sessions' = IF cascades THEN {x \in o.sessions : x.shareId # o.cascade}
                         ELSE o.sessions
          /\ versions' \in
                (IF cascades
                 THEN {SelectRows(o.versions,
                          {i \in 1..Len(o.versions) : o.versions[i].shareId # o.cascade}, 1)}
                 ELSE IF o.prune # 0 /\ versionsMax > 0
                 THEN PruneShareVersions(o.versions, o.prune, versionsMax)
                 ELSE {o.versions})
    /\ users' = o.users
    /\ teams' = o.teams
    /\ members' = o.members
    /\ invites' = o.invites
    /\ nextShare' = IF "share" \in o.drawn THEN nextShare + 1 ELSE nextShare
    /\ nextTok' = IF "tok" \in o.drawn THEN nextTok + 1 ELSE nextTok
    /\ nextVer' = IF "ver" \in o.drawn THEN nextVer + 1 ELSE nextVer
    /\ nextTeam' = IF "team" \in o.drawn THEN nextTeam + 1 ELSE nextTeam
    /\ nextInvite' = IF "invite" \in o.drawn THEN nextInvite + 1 ELSE nextInvite
    /\ last' = [op |-> op, req |-> req, at |-> o.at, status |-> o.status, code |-> o.code,
                cookie |-> o.cookie, body |-> o.body, who |-> o.who, writes |-> o.writes]
    /\ UNCHANGED <<oidc, verifier, faulty, apiPassword, versionsMax, now, issued>>

\* A handler that runs from request to response in one step.
Commit(op, req, o) == Answer(op, req, o) /\ UNCHANGED <<accepting, oidcAuth, updating>>

(***************************************************************************)
(* POST /api/shares                                                        *)
(***************************************************************************)
handleSharesOut(req) ==
    IF req.bad THEN writeError(Same, 400, "bad_json")
    ELSE IF req.schema = <<>> THEN writeError(Same, 400, "missing_schema")
    ELSE IF ~SchemaTagOK(req.schema) THEN writeError(Same, 400, "invalid_schema")
    ELSE
    LET ru == requireUser(oidc, users, req.bearer, now)
        ra == requireAuth(sessions, req.tok, now, req.pw, 0, nextTok)
    IN
    IF oidc /\ ~ru.ok THEN writeError(Same, ru.status, ru.code)
    ELSE IF ~oidc /\ ~ra.ok THEN writeError([Same EXCEPT !.sessions = ra.sessions], ra.status, ra.code)
    ELSE
    LET ownerSub == IF oidc THEN ru.sub ELSE <<>>
        actorSub == ownerSub
        afterAuth == IF oidc THEN [Same EXCEPT !.users = ru.users, !.who = ru.sub]
                     ELSE [Same EXCEPT !.sessions = ra.sessions]
        id == nextShare
        name == TrimSpace(req.name.v)
    IN
    IF req.teamId # 0 /\ ownerSub # <<>> /\ ~IsTeamMember(members, req.teamId, ownerSub).found
    THEN writeError(afterAuth, 403, "forbidden")
    ELSE
    LET hv == hasValidSession(afterAuth.sessions, req.tok, now)
        issue == ~oidc /\ ~hv.ok
        stored == [afterAuth EXCEPT
            !.shares = CreateShare(shares, id, name, req.schema, ownerSub, req.teamId, now),
            !.versions = IF "version" \in faulty THEN versions
                         ELSE AddShareVersion(versions, nextVer, id, req.schema, actorSub, now),
            !.prune = IF "prune" \in faulty THEN 0 ELSE id,
            !.sessions = IF oidc THEN @
                         ELSE IF issue
                         THEN (IF "session" \in faulty THEN hv.sessions
                               ELSE CreateSession(hv.sessions, nextTok, id,
                                                  now + Seconds(SessionTTL), now))
                         ELSE hv.sessions,
            !.cookie = IF issue THEN nextTok ELSE 0,
            !.drawn = {"share", "ver"} \cup (IF issue THEN {"tok"} ELSE {}),
            !.body = <<id>>]
    IN writeJSON(stored, 201)

(***************************************************************************)
(* GET /api/shares/{id}                                                    *)
(***************************************************************************)
\* handleGetShare behind the bearer gate of the write endpoints.
handleGetShareOutGated(req) ==
    LET ru == requireUser(oidc, users, req.bearer, now) IN
    IF oidc /\ ~ru.ok THEN writeError(Same, ru.status, ru.code)
    ELSE IF req.id \notin DOMAIN shares THEN writeError(Same, 404, "not_found")
    ELSE writeJSON([Same EXCEPT !.users = ru.users, !.body = shares[req.id].schema], 200)

handleGetShareOut(req) ==
    IF req.id \notin DOMAIN shares THEN writeError(Same, 404, "not_found")
    ELSE writeJSON([Same EXCEPT !.body = shares[req.id].schema], 200)

(***************************************************************************)
(* PUT /api/shares/{id}                                                    *)
(***************************************************************************)
\* handleUpdateShare from the clock read on: sh is the row GetShare returned, at the time
\* the handler read.
handleUpdateShareAt(req, sh, at) ==
    LET schemaPtr == IF req.schema # <<>> THEN [set |-> TRUE, v |-> req.schema] ELSE NilPtr
        ru == requireUser(oidc, users, req.bearer, now)
        ra == requireAuth(sessions, req.tok, at, req.pw, req.id, nextTok)
        gone == [Same EXCEPT !.at = at]
    IN
    IF oidc /\ ~ru.ok THEN writeError(gone, ru.status, ru.code)
    ELSE IF oidc /\ ~(TrimSpace(sh.ownerSub) # <<>> /\ sh.ownerSub = ru.sub)
                 /\ ~(sh.teamId # 0 /\ IsTeamMember(members, sh.teamId, ru.sub).found)
    THEN writeError([gone EXCEPT !.users = ru.users, !.who = ru.sub], 403, "forbidden")
    ELSE IF ~oidc /\ ~ra.ok
    THEN writeError([gone EXCEPT !.sessions = ra.sessions], ra.status, ra.code)
    ELSE
    LET afterAuth == IF oidc THEN [gone EXCEPT !.users = ru.users, !.who = ru.sub]
                     ELSE [gone EXCEPT !.sessions = ra.sessions, !.cookie = ra.cookie,
                                       !.drawn = IF ra.cookie # 0 THEN {"tok"} ELSE {}]
        up == UpdateShareFields(shares, req.id, schemaPtr, req.name, at)
        \* the second requireUser, after the write: it upserts the user once more
        ru2 == requireUser(oidc, afterAuth.users, req.bearer, now)
        actorSub == IF oidc /\ ru2.ok THEN ru2.sub ELSE <<>>
    IN
    IF up.err # "" THEN writeError(afterAuth, 404, "not_found")
    ELSE
    \* the second requireUser writes its error when it fails; the handler goes on
    writeJSON([(IF oidc /\ ~ru2.ok THEN writeError(afterAuth, ru2.status, ru2.code)
                ELSE afterAuth) EXCEPT
        !.shares = up.shares,
        !.users = IF oidc THEN ru2.users ELSE @,
        !.versions = IF schemaPtr.set
                     THEN (IF "version" \in faulty THEN versions
                           ELSE AddShareVersion(versions, nextVer, req.id, schemaPtr.v,
                                                actorSub, at))
                     ELSE versions,
        !.prune = IF "prune" \in faulty THEN 0 ELSE req.id,
        !.drawn = @ \cup (IF schemaPtr.set THEN {"ver"} ELSE {})], 200)

\* The tests of handleUpdateShare before the clock read: the code of the error, or "".
handleUpdateShareEarly(req) ==
    IF req.bad THEN "bad_json"
    ELSE IF req.schema # <<>> /\ ~SchemaTagOK(req.schema) THEN "invalid_schema"
    ELSE IF req.schema = <<>> /\ ~req.name.set THEN "missing_update"
    ELSE IF req.id \notin DOMAIN shares THEN "not_found"
    ELSE ""

handleUpdateShareOut(req) ==
    LET early == handleUpdateShareEarly(req) IN
    IF early = "not_found" THEN writeError(Same, 404, early)
    ELSE IF early # "" THEN writeError(Same, 400, early)
    ELSE handleUpdateShareAt(req, shares[req.id], now)

(***************************************************************************)
(* DELETE /api/shares/{id}                                                 *)
(***************************************************************************)
\* handleDeleteShare with the access rule of update: the owner or a team member.
handleDeleteShareOutMember(req) ==
    IF ~oidc THEN writeError(Same, 401, "unauthorized")
    ELSE
    LET ru == requireUser(oidc, users, req.bearer, now) IN
    IF ~ru.ok THEN writeError(Same, ru.status, ru.code)
    ELSE
    LET seen == [Same EXCEPT !.users = ru.users, !.who = ru.sub] IN
    IF req.id \notin DOMAIN shares THEN writeError(seen, 404, "not_found")
    ELSE IF ~(TrimSpace(shares[req.id].ownerSub) # <<>> /\ shares[req.id].ownerSub = ru.sub)
            /\ ~(shares[req.id].teamId # 0
                 /\ IsTeamMember(members, shares[req.id].teamId, ru.sub).found)
    THEN writeError(seen, 403, "forbidden")
    ELSE writeJSON([seen EXCEPT !.shares = DeleteShare(shares, req.id).shares,
                                !.cascade = req.id], 200)

handleDeleteShareOut(req) ==
    IF ~oidc THEN writeError(Same, 401, "unauthorized")
    ELSE
    LET ru == requireUser(oidc, users, req.bearer, now) IN
    IF ~ru.ok THEN writeError(Same, ru.status, ru.code)
    ELSE
    LET seen == [Same EXCEPT !.users = ru.users, !.who = ru.sub] IN
    IF req.id \notin DOMAIN shares THEN writeError(seen, 404, "not_found")
    ELSE IF TrimSpace(shares[req.id].ownerSub) = <<>> \/ shares[req.id].ownerSub # ru.sub
    THEN writeError(seen, 403, "forbidden")
    ELSE writeJSON([seen EXCEPT !.shares = DeleteShare(shares, req.id).shares,
                                !.cascade = req.id], 200)

(***************************************************************************)
(* /api/shares/{id}/versions...                                            *)
(***************************************************************************)
\* [ok, status, code, sub, users, sessions]
\* The OIDC branch of canAccessShare once requireUser has returned ru.
canAccessShareAs(ru, sess, shareID) ==
    LET deny == [ok |-> FALSE, status |-> 403, code |-> "forbidden", sub |-> <<>>,
                 users |-> ru.users, sessions |-> sess]
    IN
    IF ~ru.ok THEN [deny EXCEPT !.status = ru.status, !.code = ru.code]
    ELSE IF shareID \notin DOMAIN shares
    THEN [deny EXCEPT !.status = 404, !.code = "not_found"]
    ELSE IF TrimSpace(shares[shareID].ownerSub) # <<>> /\ shares[shareID].ownerSub = ru.sub
    THEN [deny EXCEPT !.ok = TRUE, !.status = 0, !.code = "", !.sub = ru.sub]
    ELSE IF shares[shareID].teamId # 0
            /\ IsTeamMember(members, shares[shareID].teamId, ru.sub).found
    THEN [deny EXCEPT !.ok = TRUE, !.status = 0, !.code = "", !.sub = ru.sub]
    ELSE deny

canAccessShare(usr, sess, req, shareID) ==
    IF oidc
    THEN canAccessShareAs(requireUser(oidc, usr, req.bearer, now), sess, shareID)
    ELSE LET hv == hasValidSession(sess, req.tok, now) IN
         IF ~hv.ok
         THEN [ok |-> FALSE, status |-> 401, code |-> "unauthorized", sub |-> <<>>,
               users |-> usr, sessions |-> hv.sessions]
         ELSE [ok |-> TRUE, status |-> 0, code |-> "", sub |-> <<>>,
               users |-> usr, sessions |-> hv.sessions]

\* The ids of the share's version rows (the order of the listing is left out).
ListShareVersions(vers, shareID) ==
    {vers[i].id : i \in {j \in 1..Len(vers) : vers[j].shareId = shareID}}

handleShareVersionsListOut(req) ==
    LET ca == canAccessShare(users, sessions, req, req.id)
        seen == [Same EXCEPT !.users = ca.users, !.sessions = ca.sessions, !.who = ca.sub]
    IN
    IF ~ca.ok THEN writeError(seen, ca.status, ca.code)
    ELSE writeJSON([seen EXCEPT !.body = ListShareVersions(versions, req.id)], 200)

handleShareVersionsGetOut(req) ==
    LET ca == canAccessShare(users, sessions, req, req.id)
        seen == [Same EXCEPT !.users = ca.users, !.sessions = ca.sessions, !.who = ca.sub]
    IN
    IF ~ca.ok THEN writeError(seen, ca.status, ca.code)
    ELSE LET v == GetShareVersion(versions, req.id, req.ver) IN
         IF ~v.found THEN writeError(seen, 404, "not_found")
         ELSE writeJSON([seen EXCEPT !.body = v.schema], 200)

\* The restore from the clock read on: seen is the outcome so far, schema the version
\* read, at the time the handler read.  The second canAccessShare writes its error to the
\* response before the success body, so its status is the one sent.
handleShareVersionsRestoreAt(req, seen, schema, at) ==
    LET up == UpdateShare(shares, req.id, schema, at) IN
    IF up.err # "" THEN writeError([seen EXCEPT !.at = at], 404, "not_found")
    ELSE
    LET ca2 == canAccessShare(seen.users, seen.sessions, req, req.id)
        done == [seen EXCEPT
            !.at = at,
            !.shares = up.shares,
            !.users = ca2.users,
            !.sessions = ca2.sessions,
            !.versions = IF "version" \in faulty THEN versions
                         ELSE AddShareVersion(versions, nextVer, req.id, schema, ca2.sub, at),
            !.prune = IF "prune" \in faulty THEN 0 ELSE req.id,
            !.drawn = {"ver"}]
    IN IF ca2.ok THEN writeJSON(done, 200)
       ELSE writeJSON(writeError(done, ca2.status, ca2.code), 200)

handleShareVersionsRestoreOut(req) ==
    LET ca == canAccessShare(users, sessions, req, req.id)
        seen == [Same EXCEPT !.users = ca.users, !.sessions = ca.sessions, !.who = ca.sub]
    IN
    IF ~ca.ok THEN writeError(seen, ca.status, ca.code)
    ELSE
    LET v == GetShareVersion(versions, req.id, req.ver) IN
    IF ~v.found THEN writeError(seen, 404, "not_found")
    ELSE handleShareVersionsRestoreAt(req, seen, v.schema, now)

(***************************************************************************)
(* GET /api/me, GET /api/shares/mine                                       *)
(***************************************************************************)
\* handleMe with at the time requireUser read.
handleMeAt(req, at) ==
    LET ru == requireUser(oidc, users, req.bearer, at) IN
    IF ~ru.ok THEN writeError(Same, ru.status, ru.code)
    ELSE writeJSON([Same EXCEPT !.users = ru.users, !.who = ru.sub, !.at = at,
                                !.body = <<IsUserAdmin(ru.users, ru.sub)>>], 200)

handleMeOut(req) == handleMeAt(req, now)

handleMySharesOut(req) ==
    LET ru == requireUser(oidc, users, req.bearer, now) IN
    IF ~ru.ok THEN writeError(Same, ru.status, ru.code)
    ELSE writeJSON([Same EXCEPT !.users = ru.users, !.who = ru.sub], 200)

(***************************************************************************)
(* GET /api/admin/users, GET /api/admin/shares, GET /api/admin/shares/{id},*)
(* PUT /api/admin/users/{sub}                                              *)
(***************************************************************************)
handleAdminUsersOut(req) ==
    LET ra == requireAdminUser(oidc, users, req.bearer, now) IN
    IF ~ra.ok THEN writeError([Same EXCEPT !.users = ra.users, !.who = ra.sub], ra.status, ra.code)
    ELSE writeJSON([Same EXCEPT !.users = ra.users, !.who = ra.sub], 200)

handleAdminSharesOut(req) ==
    LET ra == requireAdminUser(oidc, users, req.bearer, now) IN
    IF ~ra.ok THEN writeError([Same EXCEPT !.users = ra.users, !.who = ra.sub], ra.status, ra.code)
    ELSE writeJSON([Same EXCEPT !.users = ra.users, !.who = ra.sub], 200)

handleAdminShareByIDOut(req) ==
    LET ra == requireAdminUser(oidc, users, req.bearer, now) IN
    IF ~ra.ok THEN writeError([Same EXCEPT !.users = ra.users, !.who = ra.sub], ra.status, ra.code)
    ELSE LET seen == [Same EXCEPT !.users = ra.users, !.who = ra.sub] IN
         IF req.id \notin DOMAIN shares THEN writeError(seen, 404, "not_found")
         ELSE writeJSON([seen EXCEPT !.body = shares[req.id].schema], 200)

handleAdminUserBySubOut(req) ==
    LET sub == TrimSpace(req.sub) IN
    IF sub = <<>> THEN writeError(Same, 404, "not_found")
    ELSE
    LET ra == requireAdminUser(oidc, users, req.bearer, now) IN
    IF ~ra.ok THEN writeError([Same EXCEPT !.users = ra.users, !.who = ra.sub], ra.status, ra.code)
    ELSE LET seen == [Same EXCEPT !.users = ra.users, !.who = ra.sub]
             set == SetUserAdmin(ra.users, sub, req.isAdmin, now)
         IN
         IF req.bad THEN writeError(seen, 400, "bad_json")
         ELSE IF set.err = "not_found" THEN writeError(seen, 404, "not_found")
         ELSE IF set.err # "" THEN writeError(seen, 500, "db_update_failed")
         ELSE writeJSON([seen EXCEPT !.users = set.users], 200)

(***************************************************************************)
(* GET/POST /api/teams, POST /api/teams/{id}/invites, POST /api/invites/accept *)
(***************************************************************************)
handleTeamsListOut(req) ==
    LET ru == requireUser(oidc, users, req.bearer, now) IN
    IF ~ru.ok THEN writeError(Same, ru.status, ru.code)
    ELSE writeJSON([Same EXCEPT !.users = ru.users, !.who = ru.sub], 200)

\* req.name.v is the team's name
handleTeamsCreateOut(req) ==
    LET ru == requireUser(oidc, users, req.bearer, now) IN
    IF ~ru.ok THEN writeError(Same, ru.status, ru.code)
    ELSE
    LET seen == [Same EXCEPT !.users = ru.users, !.who = ru.sub]
        name == TrimSpace(req.name.v)
    IN
    IF req.bad THEN writeError(seen, 400, "bad_json")
    ELSE IF name = <<>> THEN writeError(seen, 400, "missing_name")
    ELSE LET ct == CreateTeam(teams, members, nextTeam, name, ru.sub, now) IN
         writeJSON([seen EXCEPT !.teams = ct.teams, !.members = ct.members,
                                !.drawn = {"team"}, !.body = <<nextTeam>>], 201)

\* handleTeamByID that lets every member of the team invite.
handleTeamByIDOutMember(req) ==
    LET ru == requireUser(oidc, users, req.bearer, now) IN
    IF ~ru.ok THEN writeError(Same, ru.status, ru.code)
    ELSE
    LET seen == [Same EXCEPT !.users = ru.users, !.who = ru.sub]
        m == IsTeamMember(members, req.teamId, ru.sub)
    IN
    IF ~m.found THEN writeError(seen, 403, "forbidden")
    ELSE IF req.bad THEN writeError(seen, 400, "bad_json")
    ELSE writeJSON([seen EXCEPT
            !.invites = CreateTeamInvite(invites, nextInvite, req.teamId, <<>>, ru.sub,
                                         now + Seconds(InviteTTL), now),
            !.drawn = {"invite"}, !.body = <<nextInvite>>], 201)

\* req.teamId is the team of the path
handleTeamByIDOut(req) ==
    LET ru == requireUser(oidc, users, req.bearer, now) IN
    IF ~ru.ok THEN writeError(Same, ru.status, ru.code)
    ELSE
    LET seen == [Same EXCEPT !.users = ru.users, !.who = ru.sub]
        m == IsTeamMember(members, req.teamId, ru.sub)
    IN
    IF ~m.found \/ m.role # "owner" THEN writeError(seen, 403, "forbidden")
    ELSE IF req.bad THEN writeError(seen, 400, "bad_json")
    ELSE writeJSON([seen EXCEPT
            !.invites = CreateTeamInvite(invites, nextInvite, req.teamId, <<>>, ru.sub,
                                         now + Seconds(InviteTTL), now),
            !.drawn = {"invite"}, !.body = <<nextInvite>>], 201)

\* req.id is the invite token of the body; 0 is the blank token
handleAcceptInviteOut(req) ==
    LET ru == requireUser(oidc, users, req.bearer, now) IN
    IF ~ru.ok THEN writeError(Same, ru.status, ru.code)
    ELSE
    LET seen == [Same EXCEPT !.users = ru.users, !.who = ru.sub] IN
    IF req.bad THEN writeError(seen, 400, "bad_json")
    ELSE IF req.id = 0 THEN writeError(seen, 400, "missing_token")
    ELSE LET acc == AcceptTeamInvite(invites, members, req.id, ru.sub, now) IN
         IF acc.err = "not_found" THEN writeError(seen, 404, "not_found")
         ELSE IF acc.err # "" THEN writeError(seen, 500, "db_update_failed")
         ELSE writeJSON([seen EXCEPT !.invites = acc.invites, !.members = acc.members,
                                     !.body = <<acc.teamId>>], 200)

(***************************************************************************)
(* The requests sent.  Each handler is an action over the set of requests  *)
(* In it may receive; a specification chooses In.  The server handles one  *)
(* request at a time: Deliver hands the response written to the client and *)
(* leaves the server idle.                                                 *)
(***************************************************************************)
Clients == 1..MaxClients

\* No transaction in flight; one in flight has pc "read" and what its handler holds.
NoUpdate == [pc |-> "idle", req |-> Req0, sh |-> <<>>, schema |-> <<>>, at |-> 0,
             resp |-> <<>>, old |-> {}]

NoTx == [pc |-> "idle", token |-> 0, bearer |-> NoBearer, teamId |-> 0, at |-> 0]

Idle == [op |-> "idle", req |-> Req0, at |-> 0, status |-> 0, code |-> "",
         cookie |-> 0, body |-> <<>>, who |-> <<>>, writes |-> 0]

\* A token of the deployment's issuer for its client.
Jwt(sub, p) == [kind |-> "jwt", kid |-> <<"1">>, sub |-> sub, iss |-> <<"i">>,
                aud |-> << <<"c">> >>, email |-> p.email, name |-> p.name]
Profile1 == [email |-> <<"x">>, name |-> <<"n">>]
Profile2 == [email |-> <<"y", " ">>, name |-> <<>>]
TokenSubs == {<<"a">>, <<"b">>, <<"a", " ">>, <<" ">>}
Secret == <<"a", "b">>
ReqPasswords == {<<>>, <<" ">>, Secret, <<"a", "a">>}

Tick(horizon) ==
    /\ last.op = "idle"
    /\ now < horizon
    /\ now' = now + 1
    /\ UNCHANGED <<oidc, verifier, faulty, apiPassword, versionsMax, sessions, shares, versions, users, teams, members,
                   invites, nextShare, nextTok, nextVer, nextTeam, nextInvite, issued,
                   accepting, oidcAuth, updating, last>>

Deliver ==
    /\ last.op # "idle"
    /\ last' = Idle
    /\ UNCHANGED <<oidc, verifier, faulty, apiPassword, versionsMax, now, sessions, shares, versions, users, teams, members,
                   invites, nextShare, nextTok, nextVer, nextTeam, nextInvite, issued,
                   accepting, oidcAuth, updating>>

handleShares(In) ==
    \E schema \in In.schemas, c \in In.creds, bearer \in In.bearers, teamId \in In.teamIds,
       bad \in In.bads :
        LET req == [Req0 EXCEPT !.schema = schema, !.pw = c.pw, !.tok = c.tok,
                                !.bearer = bearer, !.teamId = teamId, !.bad = bad]
        IN Commit("POST /shares", req, handleSharesOut(req))

handleGetShare(In) ==
    \E id \in In.ids, c \in In.readCreds, bearer \in In.bearers :
        LET req == [Req0 EXCEPT !.id = id, !.pw = c.pw, !.tok = c.tok, !.bearer = bearer]
        IN Commit("GET /shares/{id}", req, handleGetShareOut(req))

handleUpdateShare(In) ==
    \E id \in In.ids, schema \in In.schemas, name \in In.names, c \in In.creds,
       bearer \in In.bearers, bad \in In.bads :
        LET req == [Req0 EXCEPT !.id = id, !.schema = schema, !.name = name, !.pw = c.pw,
                                !.tok = c.tok, !.bearer = bearer, !.bad = bad]
        IN Commit("PUT /shares/{id}", req, handleUpdateShareOut(req))

handleDeleteShare(In) ==
    \E id \in In.ids, c \in In.creds, bearer \in In.bearers :
        LET req == [Req0 EXCEPT !.id = id, !.pw = c.pw, !.tok = c.tok, !.bearer = bearer]
        IN Commit("DELETE /shares/{id}", req, handleDeleteShareOut(req))

handleShareVersionsList(In) ==
    \E id \in In.ids, cred \in In.creds, bearer \in In.bearers :
        LET req == [Req0 EXCEPT !.id = id, !.pw = cred.pw, !.tok = cred.tok, !.bearer = bearer]
        IN Commit("GET /shares/{id}/versions", req, handleShareVersionsListOut(req))

handleShareVersionsGet(In) ==
    \E id \in In.ids, ver \in In.vers, cred \in In.creds, bearer \in In.bearers :
        LET req == [Req0 EXCEPT !.id = id, !.ver = ver, !.pw = cred.pw, !.tok = cred.tok,
                                !.bearer = bearer]
        IN Commit("GET /shares/{id}/versions/{v}", req, handleShareVersionsGetOut(req))

handleShareVersionsRestore(In) ==
    \E id \in In.ids, ver \in In.vers, cred \in In.creds, bearer \in In.bearers :
        LET req == [Req0 EXCEPT !.id = id, !.ver = ver, !.pw = cred.pw, !.tok = cred.tok,
                                !.bearer = bearer]
        IN Commit("POST /shares/{id}/versions/{v}/restore", req, handleShareVersionsRestoreOut(req))

(***************************************************************************)
(* Update and restore in two steps, for handlers that run side by side:    *)
(* the first ends with the handler's read of the clock, the second writes  *)
(* with the time read.                                                     *)
(***************************************************************************)
handleUpdateShareBegin(In, p) ==
    \E id \in In.ids, schema \in In.schemas, name \in In.names, c \in In.creds,
       bearer \in In.bearers, bad \in In.bads :
        LET req == [Req0 EXCEPT !.id = id, !.schema = schema, !.name = name, !.pw = c.pw,
                                !.tok = c.tok, !.bearer = bearer, !.bad = bad]
        IN
        /\ updating[p] = NoUpdate
        /\ IF handleUpdateShareEarly(req) # ""
           THEN Commit("PUT /shares/{id}", req, handleUpdateShareOut(req))
           ELSE /\ last.op = "idle"
                /\ updating' = [updating EXCEPT ![p] =
                       [pc |-> "update", req |-> req, sh |-> shares[req.id],
                        schema |-> <<>>, at |-> now, resp |-> <<>>, old |-> {}]]
                /\ UNCHANGED <<oidc, verifier, faulty, apiPassword, versionsMax, now,
                               sessions, shares, versions, users, teams, members, invites,
                               nextShare, nextTok, nextVer, nextTeam, nextInvite, issued,
                               accepting, oidcAuth, last>>

handleUpdateShareEnd(p) ==
    LET tx == updating[p] IN
    /\ tx.pc = "update"
    /\ Answer("PUT /shares/{id}", tx.req, handleUpdateShareAt(tx.req, tx.sh, tx.at))
    /\ updating' = [updating EXCEPT ![p] = NoUpdate]
    /\ UNCHANGED <<accepting, oidcAuth>>

\* GET /me in two steps: requireUser up to its read of the clock, then its upsert and the
\* response.
handleMeBegin(In, p) ==
    \E bearer \in In.bearers :
        LET req == [Req0 EXCEPT !.bearer = bearer] IN
        /\ updating[p] = NoUpdate
        /\ IF ~oidc \/ ~VerifyRequest(bearer).ok
           THEN Commit("GET /me", req, handleMeOut(req))
           ELSE /\ last.op = "idle"
                /\ updating' = [updating EXCEPT ![p] =
                       [pc |-> "me", req |-> req, sh |-> <<>>, schema |-> <<>>, at |-> now,
                        resp |-> <<>>, old |-> {}]]
                /\ UNCHANGED <<oidc, verifier, faulty, apiPassword, versionsMax, now,
                               sessions, shares, versions, users, teams, members, invites,
                               nextShare, nextTok, nextVer, nextTeam, nextInvite, issued,
                               accepting, oidcAuth, last>>

handleMeEnd(p) ==
    LET tx == updating[p] IN
    /\ tx.pc = "me"
    /\ Answer("GET /me", tx.req, handleMeAt(tx.req, tx.at))
    /\ updating' = [updating EXCEPT ![p] = NoUpdate]
    /\ UNCHANGED <<accepting, oidcAuth>>

(***************************************************************************)
(* Update and restore with PruneShareVersions in its steps: the handler up *)
(* to AddShareVersion, then each SELECT and each DELETE of the loop, the   *)
(* response being written when a SELECT finds no row.                      *)
(***************************************************************************)
\* The writes of outcome o without the pruning, by client p; the response waits.
WriteThenPrune(p, op, o) ==
    IF o.prune = 0 \/ versionsMax <= 0
    THEN /\ Answer(op, updating[p].req, o)
         /\ updating' = [updating EXCEPT ![p] = NoUpdate]
         /\ UNCHANGED <<accepting, oidcAuth>>
    ELSE /\ last.op = "idle"
         /\ ("tok" \in o.drawn) => nextTok <= MaxTokens
         /\ ("ver" \in o.drawn) => nextVer <= MaxVersions
         /\ shares' = o.shares
         /\ sessions' = o.sessions
         /\ versions' = o.versions
         /\ users' = o.users
         /\ nextTok' = IF "tok" \in o.drawn THEN nextTok + 1 ELSE nextTok
         /\ nextVer' = IF "ver" \in o.drawn THEN nextVer + 1 ELSE nextVer
         /\ updating' = [updating EXCEPT
                ![p].pc = "prune",
                ![p].resp = [op |-> op, req |-> updating[p].req, at |-> o.at,
                             status |-> o.status, code |-> o.code, cookie |-> o.cookie,
                             body |-> o.body, who |-> o.who, writes |-> o.writes]]
         /\ UNCHANGED <<oidc, verifier, faulty, apiPassword, versionsMax, now, teams,
                        members, invites, nextShare, nextTeam, nextInvite, issued,
                        accepting, oidcAuth, last>>

handleUpdateShareWrite(p) ==
    LET tx == updating[p] IN
    /\ tx.pc = "update"
    /\ WriteThenPrune(p, "PUT /shares/{id}", handleUpdateShareAt(tx.req, tx.sh, tx.at))

handleShareVersionsRestoreWrite(p) ==
    LET tx == updating[p]
        who == IF oidc THEN tx.req.bearer.sub ELSE <<>>
    IN
    /\ tx.pc = "restore"
    /\ WriteThenPrune(p, "POST /shares/{id}/versions/{v}/restore",
                      handleShareVersionsRestoreAt(tx.req, [Same EXCEPT !.who = who],
                                                   tx.schema, tx.at))

\* The SELECT of a pass: no row ends the loop, and the handler writes its response.
PruneShareVersionsSelect(p) ==
    LET tx == updating[p] IN
    /\ tx.pc = "prune"
    /\ last.op = "idle"
    /\ \E ids \in oldRows(versions, tx.req.id, versionsMax) :
          IF ids = {}
          THEN /\ last' = tx.resp
               /\ updating' = [updating EXCEPT ![p] = NoUpdate]
          ELSE /\ updating' = [updating EXCEPT ![p].pc = "delete", ![p].old = ids]
               /\ UNCHANGED last
    /\ UNCHANGED <<oidc, verifier, faulty, apiPassword, versionsMax, now, sessions, shares,
                   versions, users, teams, members, invites, nextShare, nextTok, nextVer,
                   nextTeam, nextInvite, issued, accepting, oidcAuth>>

\* The DELETE of a pass, and back to the SELECT.
PruneShareVersionsDelete(p) ==
    LET tx == updating[p] IN
    /\ tx.pc = "delete"
    /\ last.op = "idle"
    /\ versions' = deleteRows(versions, tx.old)
    /\ updating' = [updating EXCEPT ![p].pc = "prune", ![p].old = {}]
    /\ UNCHANGED <<oidc, verifier, faulty, apiPassword, versionsMax, now, sessions, shares,
                   users, teams, members, invites, nextShare, nextTok, nextVer,
                   nextTeam, nextInvite, issued, accepting, oidcAuth, last>>

(***************************************************************************)
(* GET /api/me with the key lookup of VerifyToken (keyFunc) in its steps:  *)
(* the read of the cache under the lock, the test of the debounce and the  *)
(* sending of the key-set request, the response of the identity provider,  *)
(* and the second read of the cache with the rest of the handler.          *)
(***************************************************************************)
\* The key sets the identity provider may serve; {} is a request that fails or a key
\* set without usable keys.
KeySets == {{}, {<<"1">>}, {<<"1">>, <<"2">>}}

keyFuncBegin(In, p) ==
    \E bearer \in In.bearers :
        LET req == [Req0 EXCEPT !.bearer = bearer]
            kid == TrimSpace(bearer.kid)
        IN
        /\ updating[p] = NoUpdate
        /\ IF ~oidc \/ bearer.kind # "jwt" \/ kid = <<>> \/ kid \in verifier.keys
           THEN Commit("GET /me", req, handleMeOut(req))
           ELSE /\ last.op = "idle"
                /\ updating' = [updating EXCEPT ![p] =
                       [pc |-> "keys", req |-> req, sh |-> <<>>, schema |-> <<>>,
                        at |-> verifier.keysFetched, resp |-> <<>>, old |-> {}]]
                /\ UNCHANGED <<oidc, verifier, faulty, apiPassword, versionsMax, now,
                               sessions, shares, versions, users, teams, members, invites,
                               nextShare, nextTok, nextVer, nextTeam, nextInvite, issued,
                               accepting, oidcAuth, last>>

\* pk is nil. time.Since(fetched) > 30s sends the key-set request; otherwise the token
\* has an unknown kid, whatever the cache holds by now.
keyFuncRefresh(p) ==
    LET tx == updating[p]
        log == Append(verifier.fetches, now)
    IN
    /\ tx.pc = "keys"
    /\ IF now - tx.at > Seconds(KeysDebounce)
       THEN /\ last.op = "idle"
            /\ verifier' = [verifier EXCEPT !.fetches =
                                IF Len(log) > FetchLog THEN Tail(log) ELSE log]
            /\ updating' = [updating EXCEPT ![p].pc = "fetch"]
            /\ UNCHANGED <<oidc, faulty, apiPassword, versionsMax, now, sessions, shares,
                           versions, users, teams, members, invites, nextShare, nextTok,
                           nextVer, nextTeam, nextInvite, issued, accepting, oidcAuth, last>>
       ELSE /\ Answer("GET /me", tx.req,
                      handleMeOut([tx.req EXCEPT !.bearer = BadBearer]))
            /\ updating' = [updating EXCEPT ![p] = NoUpdate]
            /\ UNCHANGED <<accepting, oidcAuth>>

\* refreshKeys from the response on: an error returns and leaves the cache as it is, a
\* key set replaces the cache and sets keysFetched to the time of the response. keyFunc
\* drops the error; the position keeps it (stale) for the record only.
refreshKeysEnd(Resps, p) ==
    \E resp \in Resps :
        /\ updating[p].pc = "fetch"
        /\ last.op = "idle"
        /\ verifier' = refreshKeys(verifier, resp, now).v
        /\ updating' = [updating EXCEPT ![p].pc =
                            IF refreshKeys(verifier, resp, now).err THEN "stale"
                            ELSE "reread"]
        /\ UNCHANGED <<oidc, faulty, apiPassword, versionsMax, now, sessions, shares,
                       versions, users, teams, members, invites, nextShare, nextTok,
                       nextVer, nextTeam, nextInvite, issued, accepting, oidcAuth, last>>

\* pk = v.keys[kid] read again, and the rest of the handler.
keyFuncEnd(p) ==
    LET tx == updating[p] IN
    /\ tx.pc \in {"reread", "stale"}
    /\ Answer("GET /me", tx.req, handleMeOut(tx.req))
    /\ updating' = [updating EXCEPT ![p] = NoUpdate]
    /\ UNCHANGED <<accepting, oidcAuth>>

handleShareVersionsRestoreBegin(In, p) ==
    \E id \in In.ids, ver \in In.vers, cred \in In.creds, bearer \in In.bearers :
        LET req == [Req0 EXCEPT !.id = id, !.ver = ver, !.pw = cred.pw, !.tok = cred.tok,
                                !.bearer = bearer]
            ca == canAccessShare(users, sessions, req, req.id)
            v == GetShareVersion(versions, req.id, req.ver)
        IN
        /\ updating[p] = NoUpdate
        /\ IF ~ca.ok \/ ~v.found
           THEN Commit("POST /shares/{id}/versions/{v}/restore", req,
                       handleShareVersionsRestoreOut(req))
           ELSE /\ last.op = "idle"
                /\ users' = ca.users
                /\ sessions' = ca.sessions
                /\ updating' = [updating EXCEPT ![p] =
                       [pc |-> "restore", req |-> req, sh |-> <<>>, schema |-> v.schema,
                        at |-> now, resp |-> <<>>, old |-> {}]]
                /\ UNCHANGED <<oidc, verifier, faulty, apiPassword, versionsMax, now,
                               shares, versions, teams, members, invites, nextShare,
                               nextTok, nextVer, nextTeam, nextInvite, issued, accepting, oidcAuth,
                               last>>

handleShareVersionsRestoreEnd(p) ==
    LET tx == updating[p]
        who == IF oidc THEN tx.req.bearer.sub ELSE <<>>
    IN
    /\ tx.pc = "restore"
    /\ Answer("POST /shares/{id}/versions/{v}/restore", tx.req,
              handleShareVersionsRestoreAt(tx.req, [Same EXCEPT !.who = who], tx.schema,
                                           tx.at))
    /\ updating' = [updating EXCEPT ![p] = NoUpdate]
    /\ UNCHANGED <<accepting, oidcAuth>>

handleMe(In) ==
    \E bearer \in In.bearers :
        LET req == [Req0 EXCEPT !.bearer = bearer]
        IN Commit("GET /me", req, handleMeOut(req))

handleMyShares(In) ==
    \E bearer \in In.bearers :
        LET req == [Req0 EXCEPT !.bearer = bearer]
        IN Commit("GET /shares/mine", req, handleMySharesOut(req))

handleAdminUsers(In) ==
    \E bearer \in In.bearers :
        LET req == [Req0 EXCEPT !.bearer = bearer]
        IN Commit("GET /admin/users", req, handleAdminUsersOut(req))

handleAdminShares(In) ==
    \E bearer \in In.bearers :
        LET req == [Req0 EXCEPT !.bearer = bearer]
        IN Commit("GET /admin/shares", req, handleAdminSharesOut(req))

handleAdminShareByID(In) ==
    \E id \in In.ids, bearer \in In.bearers :
        LET req == [Req0 EXCEPT !.id = id, !.bearer = bearer]
        IN Commit("GET /admin/shares/{id}", req, handleAdminShareByIDOut(req))

handleAdminUserBySub(In) ==
    \E sub \in In.subs, isAdmin \in BOOLEAN, bearer \in In.bearers, bad \in In.bads :
        LET req == [Req0 EXCEPT !.sub = sub, !.isAdmin = isAdmin, !.bearer = bearer,
                                !.bad = bad]
        IN Commit("PUT /admin/users/{sub}", req, handleAdminUserBySubOut(req))

handleTeamsList(In) ==
    \E bearer \in In.bearers :
        LET req == [Req0 EXCEPT !.bearer = bearer]
        IN Commit("GET /teams", req, handleTeamsListOut(req))

handleTeamsCreate(In) ==
    \E name \in In.teamNames, bearer \in In.bearers, bad \in In.bads :
        LET req == [Req0 EXCEPT !.name = [set |-> TRUE, v |-> name], !.bearer = bearer,
                                !.bad = bad]
        IN Commit("POST /teams", req, handleTeamsCreateOut(req))

handleTeamByID(In) ==
    \E teamId \in In.teamIds \ {0}, bearer \in In.bearers, bad \in In.bads :
        LET req == [Req0 EXCEPT !.teamId = teamId, !.bearer = bearer, !.bad = bad]
        IN Commit("POST /teams/{id}/invites", req, handleTeamByIDOut(req))

handleAcceptInvite(In) ==
    \E token \in In.invites, bearer \in In.bearers, bad \in In.bads :
        LET req == [Req0 EXCEPT !.id = token, !.bearer = bearer, !.bad = bad]
        IN Commit("POST /invites/accept", req, handleAcceptInviteOut(req))

\* handleAcceptInvite of client p up to the UPDATE of AcceptTeamInvite: requireUser, the
\* token test, and the transaction's read.  The request is answered here unless the
\* invite read is unaccepted and unexpired; then the transaction stays open.
handleAcceptInviteBegin(In, p) ==
    \E token \in In.invites, bearer \in In.bearers :
        LET req == [Req0 EXCEPT !.id = token, !.bearer = bearer]
            ru == requireUser(oidc, users, bearer, now)
            rd == AcceptTeamInviteRead(invites, token, ru.sub, now)
        IN
        /\ accepting[p] = NoTx
        /\ IF ~ru.ok \/ token = 0 \/ rd.done
           THEN /\ Answer("POST /invites/accept", req, handleAcceptInviteOut(req))
                /\ UNCHANGED <<accepting, oidcAuth, updating>>
           ELSE /\ last.op = "idle"
                /\ users' = ru.users
                /\ accepting' = [accepting EXCEPT ![p] =
                       [pc |-> "read", token |-> token, bearer |-> bearer,
                        teamId |-> rd.teamId, at |-> now]]
                /\ UNCHANGED <<oidc, verifier, faulty, apiPassword, versionsMax, now, sessions, shares, versions,
                               teams, members, invites, nextShare, nextTok, nextVer,
                               nextTeam, nextInvite, issued, updating, last, oidcAuth>>

\* The rest of handleAcceptInvite of client p: the UPDATE and INSERT of the transaction,
\* its commit, and the response.
handleAcceptInviteEnd(p) ==
    LET tx == accepting[p]
        req == [Req0 EXCEPT !.id = tx.token, !.bearer = tx.bearer]
        acc == AcceptTeamInviteWrite(invites, members, tx.token, tx.bearer.sub, tx.teamId, tx.at)
        seen == [Same EXCEPT !.who = tx.bearer.sub, !.at = tx.at]
    IN
    /\ tx.pc = "read"
    /\ Answer("POST /invites/accept", req,
              IF acc.err = "not_found" THEN writeError(seen, 404, "not_found")
              ELSE writeJSON([seen EXCEPT !.invites = acc.invites, !.members = acc.members,
                                          !.body = <<acc.teamId>>], 200))
    /\ accepting' = [accepting EXCEPT ![p] = NoTx]
    /\ UNCHANGED <<updating, oidcAuth>>

(***************************************************************************)
(* Frontend: the OidcAuth object and its silent renewal.  A promise is the *)
(* number of the tryRenewUser call that made it; 0 is null.                *)
(***************************************************************************)
Callers == 1..MaxCallers

\* getOidcEnv() returned null: no issuer or no client id is configured.
NoEnv == FALSE

NullUser == [null |-> TRUE, renewal |-> 0, expired |-> FALSE]

\* What manager.getUser() can hold before a renewal: nothing, or the user of the login.
StoredUsers == {NullUser} \cup {[null |-> FALSE, renewal |-> 0, expired |-> e] : e \in BOOLEAN}

\* How the signinSilent() of renewal k can settle.
SilentOutcomes(k) ==
    {[silent |-> "rejected", renewed |-> NullUser],
     [silent |-> "fulfilled", renewed |-> NullUser]}
    \cup {[silent |-> "fulfilled", renewed |-> [null |-> FALSE, renewal |-> k, expired |-> e]] :
            e \in BOOLEAN}

NoCall == [pc |-> "idle", reason |-> "", promise |-> 0, user |-> NullUser,
           renewed |-> NullUser, result |-> NullUser]

Pending == [silent |-> "pending", renewed |-> NullUser, settled |-> FALSE, value |-> NullUser]

\* The constructor: a manager when the environment is configured, and no renewal.
NewOidcAuth(env) ==
    [manager |-> env, renewPromise |-> 0, promises |-> <<>>,
     calls |-> [c \in Callers |-> NoCall]]

isEnabled(a) == a.manager

\* A tryRenewUser that starts a renewal whether or not one is pending.
tryRenewUserUnshared(a, c, reason, user) ==
    IF ~a.manager
    THEN [a EXCEPT !.calls[c] = [NoCall EXCEPT !.pc = "done", !.reason = reason]]
    ELSE [a EXCEPT !.promises = Append(@, Pending),
                   !.renewPromise = Len(a.promises) + 1,
                   !.calls[c] = [NoCall EXCEPT !.pc = "await", !.reason = reason,
                                               !.promise = Len(a.promises) + 1,
                                               !.user = user]]

\* tryRenewUser up to its return: the pending promise when there is one, else a new one,
\* whose body has called signinSilent() and is waiting for it.  Caller c, holding user,
\* waits for the promise returned.
tryRenewUser(a, c, reason, user) ==
    IF ~a.manager
    THEN [a EXCEPT !.calls[c] = [NoCall EXCEPT !.pc = "done", !.reason = reason]]
    ELSE IF a.renewPromise # 0
    THEN [a EXCEPT !.calls[c] = [NoCall EXCEPT !.pc = "await", !.reason = reason,
                                               !.promise = a.renewPromise,
                                               !.user = user]]
    ELSE [a EXCEPT !.promises = Append(@, Pending),
                   !.renewPromise = Len(a.promises) + 1,
                   !.calls[c] = [NoCall EXCEPT !.pc = "await", !.reason = reason,
                                               !.promise = Len(a.promises) + 1,
                                               !.user = user]]

\* The body of the promise after signinSilent(): the renewed user when there is one that
\* has not expired, else null.
renewValue(pr) ==
    IF pr.silent = "fulfilled" /\ ~pr.renewed.null /\ ~pr.renewed.expired
    THEN pr.renewed
    ELSE NullUser

\* What getUser returns once its tryRenewUser has given renewed: for an expired user the
\* renewed one; for a user expiring soon the stored user fresh if it has not expired,
\* else the user it held.
getUserReturn(call, renewed, fresh) ==
    IF call.reason = "expired-getUser" THEN renewed
    ELSE IF call.reason = "expiring-soon-getUser"
    THEN IF ~fresh.null /\ ~fresh.expired THEN fresh ELSE call.user
    ELSE NullUser

server == <<oidc, verifier, faulty, apiPassword, versionsMax, now, sessions, shares,
            versions, users, teams, members, invites, nextShare, nextTok, nextVer,
            nextTeam, nextInvite, issued, accepting, updating, last>>

\* A call may start a renewal while the model has promises left.
MayCall == oidcAuth.renewPromise = 0 => Len(oidcAuth.promises) < MaxRenewals

\* The handlers of accessTokenExpiring and accessTokenExpired, registered by init().
AccessTokenEvent(c) ==
    \E reason \in {"expiring", "expired"} :
        /\ isEnabled(oidcAuth)
        /\ oidcAuth.calls[c].pc # "await"
        /\ MayCall
        /\ oidcAuth' = tryRenewUser(oidcAuth, c, reason, NullUser)
        /\ UNCHANGED server

\* getUser up to its first wait or its return; soon is isExpiringSoon(user).
getUser(c) ==
    \E user \in StoredUsers, soon \in BOOLEAN :
        /\ oidcAuth.calls[c].pc # "await"
        /\ MayCall
        /\ oidcAuth' =
              IF ~isEnabled(oidcAuth) \/ user.null
              THEN [oidcAuth EXCEPT !.calls[c] = [NoCall EXCEPT !.pc = "done",
                                                                !.reason = "getUser"]]
              ELSE IF user.expired
              THEN tryRenewUser(oidcAuth, c, "expired-getUser", user)
              ELSE IF soon
              THEN tryRenewUser(oidcAuth, c, "expiring-soon-getUser", user)
              ELSE [oidcAuth EXCEPT !.calls[c] = [NoCall EXCEPT !.pc = "done",
                                                                !.reason = "getUser",
                                                                !.user = user,
                                                                !.result = user]]
        /\ UNCHANGED server

\* The signinSilent() of renewal k settles.
signinSilentSettles(k) ==
    \E out \in SilentOutcomes(k) :
        /\ k \in DOMAIN oidcAuth.promises
        /\ oidcAuth.promises[k].silent = "pending"
        /\ oidcAuth' = [oidcAuth EXCEPT !.promises[k].silent = out.silent,
                                        !.promises[k].renewed = out.renewed]
        /\ UNCHANGED server

\* The body of promise k runs on: try or catch, then finally, and the promise settles.
renewPromiseSettles(k) ==
    /\ k \in DOMAIN oidcAuth.promises
    /\ oidcAuth.promises[k].silent # "pending"
    /\ ~oidcAuth.promises[k].settled
    /\ oidcAuth' = [oidcAuth EXCEPT !.promises[k].settled = TRUE,
                                    !.promises[k].value = renewValue(oidcAuth.promises[k]),
                                    !.renewPromise = 0]
    /\ UNCHANGED server

\* Caller c runs on after its await of tryRenewUser.
awaitResumes(c) ==
    \E fresh \in StoredUsers \cup {oidcAuth.promises[k].renewed : k \in DOMAIN oidcAuth.promises} :
        LET call == oidcAuth.calls[c]
            renewed == oidcAuth.promises[call.promise].value
        IN
        /\ call.pc = "await"
        /\ oidcAuth.promises[call.promise].settled
        /\ call.reason # "expiring-soon-getUser" => fresh = NullUser
        /\ oidcAuth' = [oidcAuth EXCEPT !.calls[c] =
                            [call EXCEPT !.pc = "done", !.renewed = renewed,
                                         !.result = getUserReturn(call, renewed, fresh)]]
        /\ UNCHANGED server

(***************************************************************************)
(* Initial states.                                                         *)
(***************************************************************************)
\* A server started without OIDC on an empty database.
InitLegacy ==
    /\ oidc = FALSE
    /\ verifier = NoVerifier
    /\ faulty = {}
    /\ apiPassword = Secret
    /\ versionsMax = ShareVersionsMax
    /\ issued = {}
    /\ accepting = [p \in Clients |-> NoTx]
    /\ updating = [p \in Clients |-> NoUpdate]
    /\ now = 0
    /\ sessions = {}
    /\ shares = <<>>
    /\ versions = <<>>
    /\ users = <<>>
    /\ teams = <<>>
    /\ members = {}
    /\ invites = <<>>
    /\ nextShare = 1
    /\ nextTok = 1
    /\ nextVer = 1
    /\ nextTeam = 1
    /\ nextInvite = 1
    /\ last = Idle
    /\ oidcAuth = NewOidcAuth(NoEnv)

\* A server started with OIDC on the database a legacy deployment left: one share
\* without owner, its first version, and the unexpired session of its creator.
InitOIDC ==
    /\ oidc = TRUE
    /\ verifier = NewOIDCVerifier(Config)
    /\ faulty = {}
    /\ apiPassword = Secret
    /\ versionsMax = ShareVersionsMax
    /\ issued = {}
    /\ accepting = [p \in Clients |-> NoTx]
    /\ updating = [p \in Clients |-> NoUpdate]
    /\ now = 0
    /\ sessions = {[token |-> 1, shareId |-> 1, expiresAt |-> Unix(MaxTimeOIDC) + 1,
                    createdAt |-> 0]}
    /\ shares = CreateShare(<<>>, 1, <<>>, <<"EDS", 1>>, <<>>, 0, 0)
    /\ versions = AddShareVersion(<<>>, 1, 1, <<"EDS", 1>>, <<>>, 0)
    /\ users = <<>>
    /\ teams = <<>>
    /\ members = {}
    /\ invites = <<>>
    /\ nextShare = 2
    /\ nextTok = 2
    /\ nextVer = 2
    /\ nextTeam = 1
    /\ nextInvite = 1
    /\ last = Idle
    /\ oidcAuth = NewOidcAuth(NoEnv)

(***************************************************************************)
(* Spec: the share endpoints, in both modes.                               *)
(***************************************************************************)
InShares ==
    [ids |-> 1..MaxShares,
     schemas |-> {<<>>, <<"XML", 1>>, <<"EDS", 1>>},
     names |-> {NilPtr},
     creds |-> IF oidc
               THEN {[pw |-> <<>>, tok |-> 0], [pw |-> Secret, tok |-> 1]}
               ELSE {[pw |-> pw, tok |-> tok] : pw \in ReqPasswords, tok \in 0..MaxTokens},
     bearers |-> IF oidc
                 THEN {NoBearer, BadBearer} \cup {Jwt(s, Profile1) : s \in TokenSubs}
                 ELSE {NoBearer},
     vers |-> 1..MaxVersions,
     teamIds |-> IF oidc THEN 0..MaxTeams ELSE {0},
     teamNames |-> {<<"t">>},
     invites |-> 1..MaxInvites,
     subs |-> {},
     bads |-> {FALSE},
     readCreds |-> {[pw |-> <<>>, tok |-> 0]}]

Next ==
    \/ Tick(IF oidc THEN MaxTimeOIDC ELSE MaxTime)
    \/ Deliver
    \/ handleShares(InShares)
    \/ handleGetShare(InShares)
    \/ handleUpdateShare(InShares)
    \/ handleDeleteShare(InShares)
    \/ handleShareVersionsList(InShares)
    \/ handleTeamsCreate(InShares)
    \/ handleTeamByID(InShares)
    \/ handleAcceptInvite(InShares)

Init == InitLegacy \/ InitOIDC

Spec == Init /\ [][Next]_vars

\* Without OIDC the team endpoints only answer 401: the share endpoints on their own.
NextLegacy ==
    \/ Tick(MaxTime)
    \/ Deliver
    \/ handleShares(InShares)
    \/ handleGetShare(InShares)
    \/ handleUpdateShare(InShares)
    \/ handleDeleteShare(InShares)
    \/ handleShareVersionsList(InShares)

SpecLegacy == InitLegacy /\ [][NextLegacy]_vars

SpecOIDC == InitOIDC /\ [][Next]_vars

(***************************************************************************)
(* Versions and retention, in legacy mode: creations with two schemas, and *)
(* schema and name updates, reads and restores of the first share, under   *)
(* any retention setting (0 disables pruning).                             *)
(***************************************************************************)
InitVersions ==
    /\ oidc = FALSE
    /\ verifier = NoVerifier
    /\ faulty = {}
    /\ apiPassword = Secret
    /\ versionsMax \in 0..MaxKeep
    /\ issued = {}
    /\ accepting = [p \in Clients |-> NoTx]
    /\ updating = [p \in Clients |-> NoUpdate]
    /\ now = 0
    /\ sessions = {}
    /\ shares = <<>>
    /\ versions = <<>>
    /\ users = <<>>
    /\ teams = <<>>
    /\ members = {}
    /\ invites = <<>>
    /\ nextShare = 1
    /\ nextTok = 1
    /\ nextVer = 1
    /\ nextTeam = 1
    /\ nextInvite = 1
    /\ last = Idle
    /\ oidcAuth = NewOidcAuth(NoEnv)

InVersions ==
    [InShares EXCEPT
        !.ids = {1},
        !.schemas = {<<>>, <<"EDS", 1>>, <<"EDS", 2>>},
        !.names = {NilPtr, [set |-> TRUE, v |-> <<"n">>]},
        !.creds = {[pw |-> Secret, tok |-> 0], [pw |-> <<>>, tok |-> 1]},
        !.bearers = {NoBearer},
        !.teamIds = {0}]

NextVersions ==
    \/ Tick(Seconds(1))
    \/ Deliver
    \/ handleShares(InVersions)
    \/ handleGetShare(InVersions)
    \/ handleUpdateShare(InVersions)
    \/ handleShareVersionsGet(InVersions)
    \/ handleShareVersionsRestore(InVersions)

SpecVersions == InitVersions /\ [][NextVersions]_vars

(***************************************************************************)
(* Updates and restores of one share side by side under every retention    *)
(* setting, the loop of PruneShareVersions in its steps.                   *)
(***************************************************************************)
InPrune ==
    [InShares EXCEPT
        !.ids = {1},
        !.schemas = {<<"EDS", 1>>},
        !.names = {NilPtr},
        !.creds = {[pw |-> Secret, tok |-> 0], [pw |-> <<>>, tok |-> 1]},
        !.bearers = {NoBearer},
        !.vers = {1},
        !.teamIds = {0}]

NextPrune ==
    \/ Tick(MaxTime)
    \/ Deliver
    \/ handleShares(InPrune)
    \/ \E p \in Clients :
          \/ handleUpdateShareBegin(InPrune, p)
          \/ handleUpdateShareWrite(p)
          \/ handleShareVersionsRestoreBegin(InPrune, p)
          \/ handleShareVersionsRestoreWrite(p)
          \/ PruneShareVersionsSelect(p)
          \/ PruneShareVersionsDelete(p)

SpecPrune == InitVersions /\ [][NextPrune]_vars

\* The loop with its fairness: the clock stands still, every handler inside the loop is
\* scheduled again, and responses are delivered.
InitPruneLive == InitVersions /\ versionsMax <= MaxKeepLive

NextPruneLive ==
    \/ Deliver
    \/ handleShares(InPrune)
    \/ \E p \in Clients :
          \/ handleUpdateShareBegin(InPrune, p)
          \/ handleUpdateShareWrite(p)
          \/ handleShareVersionsRestoreBegin(InPrune, p)
          \/ handleShareVersionsRestoreWrite(p)
          \/ PruneShareVersionsSelect(p)
          \/ PruneShareVersionsDelete(p)

SpecPruneLive ==
    /\ InitPruneLive
    /\ [][NextPruneLive]_vars
    /\ WF_vars(Deliver)
    /\ \A p \in Clients : SF_vars(PruneShareVersionsSelect(p))
    /\ \A p \in Clients : SF_vars(PruneShareVersionsDelete(p))

(***************************************************************************)
(* Spec: the frontend beside a server in OIDC mode: calls of getUser, the  *)
(* token events, and the silent renewals they wait for.                    *)
(***************************************************************************)
InitRenew ==
    /\ oidc = TRUE
    /\ verifier = NewOIDCVerifier(Config)
    /\ faulty = {}
    /\ apiPassword = Secret
    /\ versionsMax = ShareVersionsMax
    /\ issued = {}
    /\ accepting = [p \in Clients |-> NoTx]
    /\ updating = [p \in Clients |-> NoUpdate]
    /\ now = 0
    /\ sessions = {}
    /\ shares = <<>>
    /\ versions = <<>>
    /\ users = <<>>
    /\ teams = <<>>
    /\ members = {}
    /\ invites = <<>>
    /\ nextShare = 1
    /\ nextTok = 1
    /\ nextVer = 1
    /\ nextTeam = 1
    /\ nextInvite = 1
    /\ last = Idle
    /\ oidcAuth \in {NewOidcAuth(env) : env \in BOOLEAN}

NextRenew ==
    \/ \E c \in Callers :
          \/ AccessTokenEvent(c)
          \/ getUser(c)
          \/ awaitResumes(c)
    \/ \E k \in 1..MaxRenewals :
          \/ signinSilentSettles(k)
          \/ renewPromiseSettles(k)

SpecRenew == InitRenew /\ [][NextRenew]_vars

(***************************************************************************)
(* The endpoints that read a body, in both modes, sent bodies that decode  *)
(* and bodies that do not, with and without the fields required.           *)
(***************************************************************************)
InBodies ==
    [InShares EXCEPT
        !.ids = {1},
        !.names = {NilPtr, [set |-> TRUE, v |-> <<"n">>]},
        !.creds = {[pw |-> Secret, tok |-> 0], [pw |-> <<>>, tok |-> 0]},
        !.bearers = IF oidc THEN {NoBearer, Jwt(<<"a">>, Profile1), Jwt(<<"b">>, Profile1)}
                    ELSE {NoBearer},
        !.teamIds = 0..MaxTeams,
        !.teamNames = {<<"t">>, <<" ">>},
        !.invites = 0..MaxInvites,
        !.subs = {<<"b">>},
        !.bads = BOOLEAN]

NextBodies ==
    \/ Tick(MaxTimeOIDC)
    \/ Deliver
    \/ handleShares(InBodies)
    \/ handleUpdateShare(InBodies)
    \/ handleAdminUserBySub(InBodies)
    \/ handleTeamsCreate(InBodies)
    \/ handleTeamByID(InBodies)
    \/ handleAcceptInvite(InBodies)

SpecBodies == Init /\ [][NextBodies]_vars

(***************************************************************************)
(* The listing endpoints, in both modes, beside share creation.            *)
(***************************************************************************)
InListing ==
    [InShares EXCEPT
        !.ids = {1},
        !.schemas = {<<"EDS", 1>>},
        !.creds = IF oidc THEN {[pw |-> <<>>, tok |-> 0]}
                  ELSE {[pw |-> Secret, tok |-> 0]}
                       \cup {[pw |-> <<>>, tok |-> tok] : tok \in 1..MaxTokens},
        !.bearers = IF oidc
                    THEN {NoBearer, Jwt(<<"a">>, Profile1), Jwt(<<"b">>, Profile1),
                          Jwt(<<"b">>, Profile2)}
                    ELSE {NoBearer},
        !.teamIds = {0}]

NextListing ==
    \/ Tick(MaxTime)
    \/ Deliver
    \/ handleShares(InListing)
    \/ handleMyShares(InListing)
    \/ handleShareVersionsList(InListing)
    \/ handleTeamsList(InListing)
    \/ handleAdminUsers(InListing)
    \/ handleAdminShares(InListing)

SpecListing == Init /\ [][NextListing]_vars

(***************************************************************************)
(* Every endpoint that authenticates, in both modes, sent tokens that fail *)
(* each test of the verification beside tokens that pass.                  *)
(***************************************************************************)
FailingBearers ==
    {NoBearer, BadBearer,
     Jwt(<<" ">>, Profile1),
     [Jwt(<<"a">>, Profile1) EXCEPT !.iss = <<"j">>],
     [Jwt(<<"a">>, Profile1) EXCEPT !.aud = << <<"d">> >>],
     [Jwt(<<"b">>, Profile1) EXCEPT !.aud = <<>>]}

InBearers ==
    [InShares EXCEPT
        !.ids = {1},
        !.schemas = {<<"EDS", 1>>},
        !.creds = {[pw |-> Secret, tok |-> 0]},
        !.bearers = FailingBearers \cup {Jwt(<<"a">>, Profile1), Jwt(<<"b">>, Profile1)},
        !.teamIds = {0},
        !.subs = {<<"b">>}]

NextBearers ==
    \/ Tick(MaxTimeOIDC)
    \/ Deliver
    \/ handleShares(InBearers)
    \/ handleUpdateShare(InBearers)
    \/ handleDeleteShare(InBearers)
    \/ handleShareVersionsList(InBearers)
    \/ handleMe(InBearers)
    \/ handleMyShares(InBearers)
    \/ handleAdminUsers(InBearers)
    \/ handleAdminUserBySub(InBearers)
    \/ handleTeamsCreate(InBearers)
    \/ handleTeamByID([InBearers EXCEPT !.teamIds = 1..MaxTeams])
    \/ handleAcceptInvite(InBearers)

SpecBearers == Init /\ [][NextBearers]_vars

(***************************************************************************)
(* Token verification under every configuration of issuer, client id and   *)
(* audiences, for tokens with every issuer and audience claim.             *)
(***************************************************************************)
Configs ==
    [OIDCIssuerURL : {<<"i">>, <<"i", "/">>, <<" ", "i">>, <<"j">>},
     OIDCClientID : {<<"c">>, <<"c", " ">>},
     OIDCAudience : {<<>>, <<" ">>, <<",">>, <<"d">>, <<"d", ",", "e">>,
                     <<" ", "d", ",", " ">>, <<"c", ",", "d">>}]

Issuers == {<<>>, <<" ">>, <<"i">>, <<"i", "/">>, <<"i", "/", "/">>, <<"i", " ">>, <<"j">>}

Audiences == {<<>>, << <<"c">> >>, << <<"d">> >>, << <<"e">>, <<"d">> >>, << <<"e">>, <<"c">> >>,
              << <<"c", " ">> >>}

InitVerify ==
    /\ oidc = TRUE
    /\ verifier \in {NewOIDCVerifier(c) : c \in Configs}
    /\ faulty = {}
    /\ apiPassword = Secret
    /\ versionsMax = ShareVersionsMax
    /\ issued = {}
    /\ accepting = [p \in Clients |-> NoTx]
    /\ updating = [p \in Clients |-> NoUpdate]
    /\ now = 0
    /\ sessions = {[token |-> 1, shareId |-> 1, expiresAt |-> Unix(MaxTimeOIDC) + 1,
                    createdAt |-> 0]}
    /\ shares = CreateShare(<<>>, 1, <<>>, <<"EDS", 1>>, <<>>, 0, 0)
    /\ versions = AddShareVersion(<<>>, 1, 1, <<"EDS", 1>>, <<>>, 0)
    /\ users = <<>>
    /\ teams = <<>>
    /\ members = {}
    /\ invites = <<>>
    /\ nextShare = 2
    /\ nextTok = 2
    /\ nextVer = 2
    /\ nextTeam = 1
    /\ nextInvite = 1
    /\ last = Idle
    /\ oidcAuth = NewOidcAuth(NoEnv)

InVerify ==
    [InShares EXCEPT
        !.bearers = {BadBearer}
                    \cup {[Jwt(sub, Profile1) EXCEPT !.iss = iss, !.aud = aud] :
                              sub \in {<<"a">>, <<>>}, iss \in Issuers, aud \in Audiences}]

NextVerify ==
    \/ Deliver
    \/ handleMe(InVerify)

SpecVerify == InitVerify /\ [][NextVerify]_vars

(***************************************************************************)
(* Shares created, deleted and read, in both modes, the reads carrying     *)
(* every password, cookie and bearer token.                                *)
(***************************************************************************)
InRead ==
    [InShares EXCEPT
        !.schemas = {<<"EDS", 1>>},
        !.creds = IF oidc THEN {[pw |-> <<>>, tok |-> 0]}
                  ELSE {[pw |-> Secret, tok |-> 0], [pw |-> <<>>, tok |-> 1]},
        !.teamIds = {0},
        !.readCreds = {[pw |-> pw, tok |-> tok] : pw \in {<<>>, Secret, <<"a", "a">>},
                                                  tok \in 0..MaxTokens}]

NextRead ==
    \/ Tick(MaxTimeOIDC)
    \/ Deliver
    \/ handleShares(InRead)
    \/ handleDeleteShare(InRead)
    \/ handleGetShare(InRead)

SpecRead == Init /\ [][NextRead]_vars

(***************************************************************************)
(* Best-effort store calls that fail: share writes, restores and the user  *)
(* and admin endpoints, in both modes, while the database refuses one kind *)
(* of bookkeeping write.                                                   *)
(***************************************************************************)
FaultSets == {{}, {"upsert"}, {"grant"}, {"version"}, {"prune"}, {"session"}}

\* The database starts or stops refusing a kind of write.
Fault ==
    /\ last.op = "idle"
    /\ faulty' \in FaultSets \ {faulty}
    /\ UNCHANGED <<oidc, verifier, apiPassword, versionsMax, now, sessions, shares, versions,
                   users, teams, members, invites, nextShare, nextTok, nextVer, nextTeam,
                   nextInvite, issued, accepting, oidcAuth, updating, last>>

InFaults ==
    [InShares EXCEPT
        !.ids = {1},
        !.schemas = {<<"EDS", 1>>},
        !.creds = IF oidc THEN {[pw |-> <<>>, tok |-> 0]}
                  ELSE {[pw |-> Secret, tok |-> 0], [pw |-> <<>>, tok |-> 1]},
        !.bearers = IF oidc THEN {NoBearer, Jwt(<<"a">>, Profile1), Jwt(<<"b">>, Profile1)}
                    ELSE {NoBearer},
        !.vers = {1},
        !.teamIds = {0}]

NextFaults ==
    \/ Fault
    \/ Tick(MaxTimeOIDC)
    \/ Deliver
    \/ handleShares(InFaults)
    \/ handleUpdateShare(InFaults)
    \/ handleShareVersionsRestore(InFaults)
    \/ handleMe(InFaults)
    \/ handleAdminUsers(InFaults)

SpecFaults == Init /\ [][NextFaults]_vars

(***************************************************************************)
(* Updates and restores of one share by handlers that run side by side, in *)
(* both modes.                                                             *)
(***************************************************************************)
\* With OIDC the share is the second one, created by a; the first has no owner.
InUpdates ==
    [InShares EXCEPT
        !.ids = IF oidc THEN {2} ELSE {1},
        !.schemas = {<<"EDS", 1>>},
        !.creds = IF oidc THEN {[pw |-> <<>>, tok |-> 0]}
                  ELSE {[pw |-> Secret, tok |-> 0], [pw |-> Secret, tok |-> 1]},
        !.bearers = IF oidc THEN {Jwt(<<"a">>, Profile1)} ELSE {NoBearer},
        !.vers = IF oidc THEN {2} ELSE {1},
        !.teamIds = {0}]

NextUpdates ==
    \/ Tick(MaxTime)
    \/ Deliver
    \/ handleShares(InUpdates)
    \/ \E p \in Clients : handleUpdateShareBegin(InUpdates, p)
    \/ \E p \in Clients : handleUpdateShareEnd(p)
    \/ \E p \in Clients : handleShareVersionsRestoreBegin(InUpdates, p)
    \/ \E p \in Clients : handleShareVersionsRestoreEnd(p)

SpecUpdates == Init /\ [][NextUpdates]_vars

(***************************************************************************)
(* Authenticated requests of two users by handlers that run side by side.  *)
(***************************************************************************)
InSeen ==
    [InShares EXCEPT
        !.bearers = {NoBearer, Jwt(<<"a">>, Profile1), Jwt(<<"b">>, Profile1)}]

NextSeen ==
    \/ Tick(MaxTime)
    \/ Deliver
    \/ \E p \in Clients : handleMeBegin(InSeen, p)
    \/ \E p \in Clients : handleMeEnd(p)

SpecSeen == InitOIDC /\ [][NextSeen]_vars

(***************************************************************************)
(* Tokens whose key id the cache has or lacks, over more than one debounce *)
(* interval, from clients served side by side.                             *)
(***************************************************************************)
Kids == {<<"1">>, <<"2">>}

InKeys ==
    [InShares EXCEPT
        !.bearers = {[Jwt(<<"a">>, Profile1) EXCEPT !.kid = k] : k \in Kids}]

NextKeys ==
    \/ Tick(Seconds(MaxSecondsKeys))
    \/ Deliver
    \/ \E p \in Clients :
          \/ keyFuncBegin(InKeys, p)
          \/ keyFuncRefresh(p)
          \/ refreshKeysEnd(ResponsesOf(KeySets), p)
          \/ keyFuncEnd(p)

SpecKeys == InitOIDC /\ [][NextKeys]_vars

(***************************************************************************)
(* The key-set endpoint answering with errors and with key sets of usable  *)
(* and unusable keys, when the service starts and at every refresh.        *)
(***************************************************************************)
Jwks == {[kid |-> <<"1">>, good |-> TRUE], [kid |-> <<"2", " ">>, good |-> TRUE],
         [kid |-> <<" ">>, good |-> TRUE], [kid |-> <<"2">>, good |-> FALSE]}

Responses == {NoResponse} \cup {[err |-> FALSE, keys |-> set] : set \in SUBSET Jwks}

\* The service starts when api.New returns without error.
InitRefresh ==
    /\ oidc = TRUE
    /\ verifier \in {v \in {NewOIDCVerifierFrom(Config, r) : r \in Responses} : v.ok}
    /\ faulty = {}
    /\ apiPassword = Secret
    /\ versionsMax = ShareVersionsMax
    /\ issued = {}
    /\ accepting = [p \in Clients |-> NoTx]
    /\ updating = [p \in Clients |-> NoUpdate]
    /\ now = 0
    /\ sessions = {[token |-> 1, shareId |-> 1, expiresAt |-> Unix(MaxTimeOIDC) + 1,
                    createdAt |-> 0]}
    /\ shares = CreateShare(<<>>, 1, <<>>, <<"EDS", 1>>, <<>>, 0, 0)
    /\ versions = AddShareVersion(<<>>, 1, 1, <<"EDS", 1>>, <<>>, 0)
    /\ users = <<>>
    /\ teams = <<>>
    /\ members = {}
    /\ invites = <<>>
    /\ nextShare = 2
    /\ nextTok = 2
    /\ nextVer = 2
    /\ nextTeam = 1
    /\ nextInvite = 1
    /\ last = Idle
    /\ oidcAuth = NewOidcAuth(NoEnv)

\* The clock runs until the debounce has passed.
NextRefresh ==
    \/ Tick(Seconds(KeysDebounce) + 1)
    \/ Deliver
    \/ \E p \in Clients :
          \/ keyFuncBegin(InKeys, p)
          \/ keyFuncRefresh(p)
          \/ refreshKeysEnd(Responses, p)
          \/ keyFuncEnd(p)

SpecRefresh == InitRefresh /\ [][NextRefresh]_vars

(***************************************************************************)
(* Sessions that expire, in both modes: share creation and update, which   *)
(* call requireAuth in legacy mode, beside the version listing and the     *)
(* listing of the caller's shares, which do not.                           *)
(***************************************************************************)
InCleanup ==
    [InListing EXCEPT !.names = {NilPtr, [set |-> TRUE, v |-> <<"n">>]}]

NextCleanup ==
    \/ Tick(MaxTime)
    \/ Deliver
    \/ handleShares(InCleanup)
    \/ handleUpdateShare(InCleanup)
    \/ handleShareVersionsList(InCleanup)
    \/ handleMyShares(InCleanup)

SpecCleanup == Init /\ [][NextCleanup]_vars

(***************************************************************************)
(* Shares created with a team id, in both modes.                           *)
(***************************************************************************)
InTeamShares ==
    [InShares EXCEPT
        !.teamIds = 0..MaxTeams,
        !.creds = IF oidc THEN @ ELSE {[pw |-> Secret, tok |-> 0], [pw |-> <<>>, tok |-> 0]}]

NextTeamShares ==
    \/ Tick(MaxTimeOIDC)
    \/ Deliver
    \/ handleShares(InTeamShares)
    \/ handleGetShare(InTeamShares)
    \/ handleTeamsCreate(InTeamShares)
    \/ handleTeamByID(InTeamShares)
    \/ handleAcceptInvite(InTeamShares)

SpecTeamShares == Init /\ [][NextTeamShares]_vars

(***************************************************************************)
(* Teams and invites, in OIDC mode: one user creates the team and invites, *)
(* three users accept, the acceptances of two clients overlapping, until   *)
(* after the invite has expired.                                           *)
(***************************************************************************)
TeamSubs == {<<"a">>, <<"b">>, <<"c">>}

InTeams ==
    [InShares EXCEPT
        !.bearers = {Jwt(sub, Profile1) : sub \in TeamSubs},
        !.teamIds = 1..MaxTeams,
        !.invites = 1..(MaxInvites + 1)]

\* The requests of the user who creates the team and invites.
InOwner == [InTeams EXCEPT !.bearers = {Jwt(<<"a">>, Profile1)}]

NextTeams ==
    \/ Tick(Seconds(InviteTTL + 1))
    \/ Deliver
    \/ handleTeamsCreate(InOwner)
    \/ handleTeamByID(InOwner)
    \/ \E p \in Clients : handleAcceptInviteBegin(InTeams, p)
    \/ \E p \in Clients : handleAcceptInviteEnd(p)

SpecTeams == InitOIDC /\ [][NextTeams]_vars

(***************************************************************************)
(* Invites asked for by the owner of a team, by a member who joined with   *)
(* an invite, by users who are no members and by requests without a valid  *)
(* token, for the team that exists and for one that does not.              *)
(***************************************************************************)
InInvites ==
    [InShares EXCEPT
        !.bearers = {NoBearer, BadBearer} \cup {Jwt(sub, Profile1) : sub \in TeamSubs},
        !.teamIds = 1..(MaxTeams + 1),
        !.teamNames = {<<"t">>},
        !.invites = 1..MaxInvites,
        !.bads = BOOLEAN]

NextInvites ==
    \/ Deliver
    \/ handleTeamsCreate(InInvites)
    \/ handleTeamByID(InInvites)
    \/ handleAcceptInvite(InInvites)

SpecInvites == InitOIDC /\ [][NextInvites]_vars

(***************************************************************************)
(* The session store on its own: the three store operations called at any *)
(* instant, with any expiry, on the empty legacy database.                 *)
(***************************************************************************)
SessCreate ==
    /\ last.op = "idle"
    /\ nextTok <= MaxTokens
    /\ \E shareID \in 0..MaxShares, expiresAt \in 0..(MaxTime + TicksPerSec) :
          /\ sessions' = CreateSession(sessions, nextTok, shareID, expiresAt, now)
          /\ issued' = issued \cup {[token |-> nextTok, shareId |-> shareID,
                                     expiresAt |-> expiresAt]}
          /\ last' = [Idle EXCEPT !.op = "CreateSession", !.req.tok = nextTok,
                                  !.req.id = shareID, !.at = now]
    /\ nextTok' = nextTok + 1
    /\ UNCHANGED <<oidc, verifier, faulty, apiPassword, versionsMax, now, shares, versions, users, teams, members, invites,
                   nextShare, nextVer, nextTeam, nextInvite, accepting, oidcAuth, updating>>

SessLookup ==
    /\ last.op = "idle"
    /\ \E tok \in 1..MaxTokens :
          LET r == GetSessionShareID(sessions, tok, now) IN
          /\ sessions' = r.sessions
          /\ last' = [Idle EXCEPT !.op = "GetSessionShareID", !.req.tok = tok, !.at = now,
                                  !.status = IF r.found THEN 200 ELSE 404,
                                  !.body = <<r.shareId>>]
    /\ UNCHANGED <<oidc, verifier, faulty, apiPassword, versionsMax, now, shares, versions, users, teams, members, invites,
                   nextShare, nextTok, nextVer, nextTeam, nextInvite, issued,
                   accepting, oidcAuth, updating>>

SessCleanup ==
    /\ last.op = "idle"
    /\ sessions' = CleanupExpiredSessions(sessions, now)
    /\ last' = [Idle EXCEPT !.op = "CleanupExpiredSessions", !.at = now]
    /\ UNCHANGED <<oidc, verifier, faulty, apiPassword, versionsMax, now, shares, versions, users, teams, members, invites,
                   nextShare, nextTok, nextVer, nextTeam, nextInvite, issued,
                   accepting, oidcAuth, updating>>

NextSession ==
    \/ Tick(MaxTime)
    \/ Deliver
    \/ SessCreate
    \/ SessLookup
    \/ SessCleanup

(***************************************************************************)
(* The user and admin endpoints, with OIDC enabled: two subjects, one of   *)
(* them a bootstrap admin, each with a token whose profile claims change.  *)
(***************************************************************************)
InAdmin ==
    [InShares EXCEPT
        !.ids = {1},
        !.bearers = {NoBearer, Jwt(<<"a">>, Profile1), Jwt(<<"a", " ">>, Profile1),
                     Jwt(<<"b">>, Profile1), Jwt(<<"b">>, Profile2)},
        !.subs = {<<"a">>, <<"b">>, <<"c">>}]

NextAdmin ==
    \/ Tick(MaxTime)
    \/ Deliver
    \/ handleMe(InAdmin)
    \/ handleMyShares(InAdmin)
    \/ handleAdminUsers(InAdmin)
    \/ handleAdminShares(InAdmin)
    \/ handleAdminShareByID(InAdmin)
    \/ handleAdminUserBySub(InAdmin)

SpecAdmin == InitOIDC /\ [][NextAdmin]_vars

SpecSession == InitLegacy /\ [][NextSession]_vars

(***************************************************************************)
(* The shared-secret check on its own: any configured secret, any password *)
(* of at most MaxPwLen characters, through passwordOK and through          *)
(* requireAuth without a session cookie.                                   *)
(***************************************************************************)
Passwords == UNION {[1..n -> {"a", "b", " "}] : n \in 0..MaxPwLen}

InitPassword ==
    /\ oidc = FALSE
    /\ verifier = NoVerifier
    /\ faulty = {}
    /\ apiPassword \in Passwords
    /\ versionsMax = ShareVersionsMax
    /\ now = 0
    /\ sessions = {}
    /\ shares = <<>>
    /\ versions = <<>>
    /\ users = <<>>
    /\ teams = <<>>
    /\ members = {}
    /\ invites = <<>>
    /\ nextShare = 1
    /\ nextTok = 1
    /\ nextVer = 1
    /\ nextTeam = 1
    /\ nextInvite = 1
    /\ issued = {}
    /\ accepting = [p \in Clients |-> NoTx]
    /\ updating = [p \in Clients |-> NoUpdate]
    /\ last = Idle
    /\ oidcAuth = NewOidcAuth(NoEnv)

CheckPassword ==
    /\ last.op = "idle"
    /\ \E pw \in Passwords :
          last' = [Idle EXCEPT !.op = "passwordOK", !.req.pw = pw,
                               !.status = IF passwordOK(pw) THEN 200 ELSE 401]
    /\ UNCHANGED <<oidc, verifier, faulty, apiPassword, versionsMax, now, sessions, shares, versions, users, teams, members,
                   invites, nextShare, nextTok, nextVer, nextTeam, nextInvite, issued,
                   accepting, oidcAuth, updating>>

CheckRequireAuth ==
    /\ last.op = "idle"
    /\ \E pw \in Passwords :
          LET ra == requireAuth(sessions, 0, now, pw, 0, nextTok) IN
          /\ sessions' = ra.sessions
          /\ last' = [Idle EXCEPT !.op = "requireAuth", !.req.pw = pw,
                                  !.status = IF ra.ok THEN 200 ELSE ra.status,
                                  !.code = ra.code]
    /\ UNCHANGED <<oidc, verifier, faulty, apiPassword, versionsMax, now, shares, versions, users, teams, members,
                   invites, nextShare, nextTok, nextVer, nextTeam, nextInvite, issued,
                   accepting, oidcAuth, updating>>

NextPassword ==
    \/ CheckPassword
    \/ CheckRequireAuth
    \/ Deliver

SpecPassword == InitPassword /\ [][NextPassword]_vars

(***************************************************************************)
(* Properties.  A property about a request is stated on `last`, the        *)
(* request handled last with its response, and on the tables it left; the  *)
(* clock does not move between a request and the delivery of its response. *)
(***************************************************************************)
\* The unexpired session rows of cookie token tok at time at.
LiveSessions(tok, at) == {s \in sessions : s.token = tok /\ Unix(at) < s.expiresAt}

LegacyPut == ~oidc /\ last.op = "PUT /shares/{id}"

\* C1 (as stated): a legacy PUT /shares/{id} succeeds only if the request carries the
\* correct shared secret or the cookie of an unexpired session whose shareId is that id.
C1_BoundSession ==
    (LegacyPut /\ last.status = 200) =>
        \/ last.req.pw = apiPassword
        \/ \E s \in LiveSessions(last.req.tok, last.at) : s.shareId = last.req.id

\* C1 (amended): a legacy PUT /shares/{id} succeeds only if the request carries the
\* correct shared secret or the cookie of an unexpired session, whichever share that
\* session was issued for.
C1_AnySession ==
    (LegacyPut /\ last.status = 200) =>
        \/ last.req.pw = apiPassword
        \/ LiveSessions(last.req.tok, last.at) # {}

\* A PUT without password that succeeded on the session of another share.
C1_Witness ==
    /\ LegacyPut
    /\ last.status = 200
    /\ last.req.pw = <<>>
    /\ \E s \in LiveSessions(last.req.tok, last.at) : s.shareId # last.req.id

\* A bearer token that passes verification and names a subject.
ValidBearer(b) == b.kind = "jwt" /\ TrimSpace(b.sub) # <<>>

\* sub owns share sh, or is a member of the team sh belongs to.
OwnerOrMember(sh, sub) ==
    \/ TrimSpace(sh.ownerSub) # <<>> /\ sh.ownerSub = sub
    \/ sh.teamId # 0 /\ \E m \in members : m.teamId = sh.teamId /\ m.userSub = TrimSpace(sub)

OidcGet == oidc /\ last.op = "GET /shares/{id}"

\* C2 (as stated): with OIDC enabled, GET /shares/{id} returns the share only to a caller
\* with a valid bearer token who owns the share or is a member of its team.
C2_ReadNeedsBearer ==
    (OidcGet /\ last.status = 200) =>
        /\ ValidBearer(last.req.bearer)
        /\ last.req.id \in DOMAIN shares
        /\ OwnerOrMember(shares[last.req.id], last.req.bearer.sub)

\* C2 (amended): with OIDC enabled, GET /shares/{id} is public: it answers 200 with the
\* schema of the share to every caller, with or without a bearer token, whenever the
\* share exists, and 404 otherwise.
C2_ReadIsPublic ==
    OidcGet =>
        IF last.req.id \in DOMAIN shares
        THEN last.status = 200 /\ last.body = shares[last.req.id].schema
        ELSE last.status = 404

\* An anonymous caller was handed the schema of a share that has an owner.
C2_Witness ==
    /\ OidcGet
    /\ last.status = 200
    /\ last.req.bearer = NoBearer
    /\ shares[last.req.id].ownerSub # <<>>
    /\ last.body = shares[last.req.id].schema

\* C3 (as stated): for a session created with (token, shareId, expiresAt), a lookup at
\* any instant before expiresAt returns shareId, a lookup at or after expiresAt is
\* not-found and leaves no row of the token, and a token never created is not-found.
C3_LookupByInstant ==
    (last.op = "GetSessionShareID") =>
        LET c == {x \in issued : x.token = last.req.tok} IN
        IF c = {} THEN last.status = 404
        ELSE \A x \in c :
                IF last.at < x.expiresAt
                THEN last.status = 200 /\ last.body = <<x.shareId>>
                ELSE last.status = 404 /\ \A s \in sessions : s.token # last.req.tok

\* C3 (amended): the same with both times truncated to whole seconds: the lookup returns
\* shareId as long as the second of now is before the second of expiresAt, and is
\* not-found, leaving no row of the token, from the second of expiresAt on.
C3_LookupBySecond ==
    (last.op = "GetSessionShareID") =>
        LET c == {x \in issued : x.token = last.req.tok} IN
        IF c = {} THEN last.status = 404
        ELSE \A x \in c :
                IF Unix(last.at) < Unix(x.expiresAt)
                THEN last.status = 200 /\ last.body = <<x.shareId>>
                ELSE last.status = 404 /\ \A s \in sessions : s.token # last.req.tok

\* A lookup made before the instant of expiry, in the second of expiry: not-found.
C3_Witness ==
    /\ last.op = "GetSessionShareID"
    /\ \E x \in issued :
          /\ x.token = last.req.tok
          /\ last.at < x.expiresAt
          /\ Unix(last.at) = Unix(x.expiresAt)
    /\ last.status = 404
    /\ \A s \in sessions : s.token # last.req.tok

\* sub is a member of the team of share sh.
TeamMemberOf(sh, sub) ==
    sh.teamId # 0 /\ \E m \in members : m.teamId = sh.teamId /\ m.userSub = TrimSpace(sub)

\* C4: DELETE /shares/{id} succeeds only with OIDC enabled and for a caller whose verified
\* subject equals the share's non-empty ownerSub; a member of
\* the share's team who is not its owner gets 403 and the share and its versions stay as
\* they were; without OIDC a delete is always rejected and changes nothing.
C4_DeleteOwnerOnly ==
    [][(last'.op = "DELETE /shares/{id}") =>
          LET id == last'.req.id
              b == last'.req.bearer
          IN
          /\ (last'.status = 200) =>
                /\ oidc
                /\ ValidBearer(b)
                /\ id \in DOMAIN shares
                /\ TrimSpace(shares[id].ownerSub) # <<>>
                /\ shares[id].ownerSub = b.sub
          /\ (oidc /\ ValidBearer(b) /\ id \in DOMAIN shares
                /\ shares[id].ownerSub # b.sub /\ TeamMemberOf(shares[id], b.sub)) =>
                /\ last'.status = 403
                /\ shares' = shares
                /\ versions' = versions
          /\ (~oidc) =>
                /\ last'.status \notin {200, 201, 204}
                /\ shares' = shares
                /\ versions' = versions
                /\ sessions' = sessions
      ]_vars

\* A team member who does not own the share asked to delete it and got 403.
C4_Witness ==
    /\ oidc
    /\ last.op = "DELETE /shares/{id}"
    /\ last.status = 403
    /\ ValidBearer(last.req.bearer)
    /\ last.req.id \in DOMAIN shares
    /\ TrimSpace(last.req.bearer.sub) # shares[last.req.id].ownerSub
    /\ TeamMemberOf(shares[last.req.id], last.req.bearer.sub)

\* C5: with OIDC enabled, POST /shares and PUT /shares/{id} succeed only for a request
\* with a valid bearer token, and the update only if the token's subject owns the share
\* or is a member of its team; the session cookie and the shared secret play no part.
C5_WritesNeedBearer ==
    (oidc /\ last.op \in {"POST /shares", "PUT /shares/{id}"} /\ last.status \in {200, 201}) =>
        /\ ValidBearer(last.req.bearer)
        /\ (last.op = "PUT /shares/{id}") =>
              /\ last.req.id \in DOMAIN shares
              /\ OwnerOrMember(shares[last.req.id], last.req.bearer.sub)

\* An update by a member of the share's team who is not its owner succeeded.
C5_Witness ==
    /\ oidc
    /\ last.op = "PUT /shares/{id}"
    /\ last.status = 200
    /\ ValidBearer(last.req.bearer)
    /\ shares[last.req.id].ownerSub # TrimSpace(last.req.bearer.sub)
    /\ TeamMemberOf(shares[last.req.id], last.req.bearer.sub)

\* An update with the correct secret and an unexpired session cookie, but no bearer
\* token, was answered 401.
C5_SecretAlone ==
    /\ oidc
    /\ last.op = "PUT /shares/{id}"
    /\ last.status = 401
    /\ last.req.bearer = NoBearer
    /\ last.req.pw = apiPassword
    /\ LiveSessions(last.req.tok, last.at) # {}

\* The legacy request handled last got as far as the authorization check of handler op:
\* its body passed validation and, for an update, the share exists.
ReachedAuth(op) ==
    /\ ~oidc
    /\ last.op = op
    /\ (op = "POST /shares") =>
          last.req.schema # <<>> /\ last.req.schema[1] \in {"EDS", "TXT"}
    /\ (op = "PUT /shares/{id}") =>
          /\ last.req.schema # <<>> /\ last.req.schema[1] \in {"EDS", "TXT"}
          /\ last.req.id \in DOMAIN shares

\* The session is checked first; without a live session the password decides.
SessionThenPassword ==
    IF LiveSessions(last.req.tok, last.at) # {} THEN last.status \in {200, 201}
    ELSE IF TrimSpace(last.req.pw) = <<>>
    THEN last.status = 401 /\ last.code = "password_required"
    ELSE IF last.req.pw # apiPassword
    THEN last.status = 401 /\ last.code = "invalid_password"
    ELSE last.status \in {200, 201}

\* C8 (as stated): on every legacy-mode authorization check, the version endpoints
\* included, a live session succeeds whatever the password, and without one the request
\* falls through to the password: password_required, invalid_password or success.
C8_EveryAttempt ==
    \A op \in {"POST /shares", "PUT /shares/{id}", "GET /shares/{id}/versions"} :
        ReachedAuth(op) => SessionThenPassword

\* C8 (amended): the same on the legacy create and update, the two endpoints behind
\* requireAuth.
C8_CreateAndUpdate ==
    \A op \in {"POST /shares", "PUT /shares/{id}"} :
        ReachedAuth(op) => SessionThenPassword

\* A request with a live session and a wrong, non-blank password succeeded.
C8_Witness ==
    /\ \E op \in {"POST /shares", "PUT /shares/{id}"} : ReachedAuth(op)
    /\ LiveSessions(last.req.tok, last.at) # {}
    /\ last.cookie = 0
    /\ TrimSpace(last.req.pw) # <<>>
    /\ last.req.pw # apiPassword
    /\ last.status \in {200, 201}

\* The request of this step carries the cookie of a session unexpired before the step.
CarriesLiveSession == \E s \in sessions : s.token = last'.req.tok /\ Unix(now) < s.expiresAt

\* The request of this step is a legacy update with a valid body of a share that exists.
LegacyUpdateStep ==
    /\ ~oidc
    /\ last'.op = "PUT /shares/{id}"
    /\ last'.req.schema # <<>> /\ last'.req.schema[1] \in {"EDS", "TXT"}
    /\ last'.req.id \in DOMAIN shares

\* The step sets the cookie of a session that did not exist, bound to share id, expiring
\* SessionTTL seconds after the second of the request.
IssuesSessionFor(id) ==
    /\ last'.cookie # 0
    /\ \A s \in sessions : s.token # last'.cookie
    /\ \E s \in sessions' :
          /\ s.token = last'.cookie
          /\ s.shareId = id
          /\ s.expiresAt = Unix(now) + SessionTTL

\* An update with that share's session cookie and no password succeeds while the session
\* is unexpired; an update with a wrong password and no cookie is 401 invalid_password.
UpdateAfterCreate ==
    /\ (/\ LegacyUpdateStep
        /\ last'.req.pw = <<>>
        /\ \E s \in sessions : /\ s.token = last'.req.tok
                               /\ s.shareId = last'.req.id
                               /\ Unix(now) < s.expiresAt)
          => last'.status = 200
    /\ (/\ LegacyUpdateStep
        /\ last'.req.tok = 0
        /\ TrimSpace(last'.req.pw) # <<>>
        /\ last'.req.pw # apiPassword)
          => (last'.status = 401 /\ last'.code = "invalid_password")

\* C9 (as stated): every successful legacy creation issues a fresh session bound to the
\* new share id, expiring SessionTTL after now; a later update with that cookie and no
\* password succeeds while the session is unexpired, and an update with a wrong password
\* and no cookie is rejected 401 invalid_password.
C9_AlwaysIssues ==
    [][/\ (~oidc /\ last'.op = "POST /shares" /\ last'.status = 201) =>
              /\ last'.body[1] \notin DOMAIN shares
              /\ last'.body[1] \in DOMAIN shares'
              /\ IssuesSessionFor(last'.body[1])
       /\ UpdateAfterCreate
      ]_vars

\* C9 (amended): a successful legacy creation issues such a session exactly when the
\* request did not already carry an unexpired session; when it did, no cookie is set and
\* no session is added.  The two updates are as stated.
C9_IssuesUnlessSession ==
    [][/\ (~oidc /\ last'.op = "POST /shares" /\ last'.status = 201) =>
              /\ last'.body[1] \notin DOMAIN shares
              /\ last'.body[1] \in DOMAIN shares'
              /\ IF CarriesLiveSession
                 THEN last'.cookie = 0 /\ sessions' \subseteq sessions
                 ELSE IssuesSessionFor(last'.body[1])
       /\ UpdateAfterCreate
      ]_vars

\* An update without password succeeded on the cookie of the session that was issued
\* for that share when it was created.
C9_Witness ==
    /\ LegacyPut
    /\ last.status = 200
    /\ last.req.pw = <<>>
    /\ \E s \in LiveSessions(last.req.tok, last.at) :
          /\ s.shareId = last.req.id
          /\ s.createdAt = shares[last.req.id].createdAt
          /\ s.expiresAt = shares[last.req.id].createdAt + SessionTTL

\* C10: the shared-secret check succeeds exactly for the password equal to the configured
\* secret, character for character: a strict prefix, an extension or a password differing
\* in one character fails; and requireAuth without a session succeeds on no other password.
C10_ExactMatchOnly ==
    /\ (last.op = "passwordOK") => (last.status = 200 <=> last.req.pw = apiPassword)
    /\ (last.op = "requireAuth" /\ last.status = 200) => last.req.pw = apiPassword

\* A non-empty strict prefix of the secret was rejected.
C10_Witness ==
    /\ last.op = "passwordOK"
    /\ last.req.pw # <<>>
    /\ Len(last.req.pw) < Len(apiPassword)
    /\ last.req.pw = SubSeq(apiPassword, 1, Len(last.req.pw))
    /\ last.status = 401

AdminOps == {"GET /admin/users", "GET /admin/shares", "GET /admin/shares/{id}",
             "PUT /admin/users/{sub}"}

\* The user row of the subject of bearer b has isAdmin set, before this step.
FlagSet(b) == TrimSpace(b.sub) \in DOMAIN users /\ users[TrimSpace(b.sub)].isAdmin

\* C6 (as stated): an admin endpoint succeeds only for a verified caller whose isAdmin flag
\* is true in the store when the call is made; a verified caller whose flag is false, as
\* after a demotion, is answered 403 on the very next admin request, whoever the caller.
C6_FlagAtCall ==
    [][(last'.op \in AdminOps) =>
          LET b == last'.req.bearer IN
          /\ (last'.status = 200) => (ValidBearer(b) /\ FlagSet(b))
          /\ (ValidBearer(b) /\ ~FlagSet(b)) => last'.status = 403
      ]_vars

\* C6 (amended): the same for every caller whose subject is not in the configured list of
\* bootstrap admins; a caller whose subject is in the list has the flag set again by each
\* of its requests and passes the admin check whatever the flag was.
C6_FlagOrBootstrap ==
    [][(last'.op \in AdminOps) =>
          LET b == last'.req.bearer IN
          /\ (last'.status = 200) => (ValidBearer(b) /\ (FlagSet(b) \/ b.sub \in AdminSubs))
          /\ (ValidBearer(b) /\ ~FlagSet(b) /\ b.sub \notin AdminSubs) => last'.status = 403
          /\ (ValidBearer(b) /\ b.sub \in AdminSubs) => last'.status \notin {401, 403}
      ]_vars

\* A known user whose flag is not set was answered 403 on an admin endpoint.
C6_Witness ==
    /\ last.op \in AdminOps
    /\ last.status = 403
    /\ ValidBearer(last.req.bearer)
    /\ TrimSpace(last.req.bearer.sub) \in DOMAIN users
    /\ users[TrimSpace(last.req.bearer.sub)].createdAt < Unix(last.at)
    /\ ~users[TrimSpace(last.req.bearer.sub)].isAdmin

\* No user row disappears or changes its email, name or creation time in this step.
ProfilesKept ==
    \A k \in DOMAIN users :
        /\ k \in DOMAIN users'
        /\ users'[k].email = users[k].email
        /\ users'[k].name = users[k].name
        /\ users'[k].createdAt = users[k].createdAt

\* This step is a successful PUT /admin/users/{k} that leaves the flag it was asked for.
AdminPutOf(k) ==
    /\ last'.op = "PUT /admin/users/{sub}"
    /\ last'.status = 200
    /\ TrimSpace(last'.req.sub) = k
    /\ users'[k].isAdmin = last'.req.isAdmin

\* C7 (as stated): no request changes the email, name or isAdmin of an existing user,
\* except PUT /admin/users/{sub} which sets isAdmin; a user row is created once, for the
\* subject of the request, with isAdmin false.
C7_OnlyAdminPut ==
    [][/\ ProfilesKept
       /\ \A k \in DOMAIN users :
             (k \in DOMAIN users' /\ users'[k].isAdmin # users[k].isAdmin) => AdminPutOf(k)
       /\ \A k \in DOMAIN users' \ DOMAIN users :
             /\ k = TrimSpace(last'.req.bearer.sub)
             /\ ~users'[k].isAdmin
      ]_vars

\* C7 (amended): the same, except that a request whose subject is in the configured list
\* of bootstrap admins also sets that subject's isAdmin to true, on creation of the row
\* and on every later request.
C7_AdminPutOrBootstrap ==
    [][/\ ProfilesKept
       /\ \A k \in DOMAIN users :
             (k \in DOMAIN users' /\ users'[k].isAdmin # users[k].isAdmin) =>
                \/ AdminPutOf(k)
                \/ /\ last'.req.bearer.sub \in AdminSubs
                   /\ k = TrimSpace(last'.req.bearer.sub)
                   /\ users'[k].isAdmin
       /\ \A k \in DOMAIN users' \ DOMAIN users :
             /\ k = TrimSpace(last'.req.bearer.sub)
             /\ users'[k].isAdmin => last'.req.bearer.sub \in AdminSubs
      ]_vars

\* A known user logged in with other email and name claims than those stored.
C7_Witness ==
    /\ last.op = "GET /me"
    /\ last.status = 200
    /\ last.req.bearer = Jwt(<<"b">>, Profile2)
    /\ <<"b">> \in DOMAIN users
    /\ users[<<"b">>].email = TrimSpace(Profile1.email)
    /\ users[<<"b">>].name = TrimSpace(Profile1.name)
    /\ users[<<"b">>].lastSeenAt = Unix(last.at)
    /\ users[<<"b">>].createdAt < Unix(last.at)

(***************************************************************************)
(* C11..C13: version rows and retention (SpecVersions).                    *)
(***************************************************************************)
\* The version rows of a share, in insertion order.
VersionsOf(vers, id) == SelectRows(vers, {i \in 1..Len(vers) : vers[i].shareId = id}, 1)

LastN(s, n) == SubSeq(s, Len(s) - n + 1, Len(s))

Min(a, b) == IF a <= b THEN a ELSE b

VersionWrites == {"POST /shares", "PUT /shares/{id}", "POST /shares/{id}/versions/{v}/restore"}

\* The share a version-writing request wrote to.
WrittenShare == IF last'.op = "POST /shares" THEN nextShare ELSE last'.req.id

\* This step is a successful create, schema update or restore: it drew a version id.
AppendsVersion ==
    /\ last.op = "idle"
    /\ last'.op \in VersionWrites
    /\ last'.status \in {200, 201}
    /\ nextVer' = nextVer + 1

\* C11: with retention keep = k > 0, after every successful write that appends a version
\* row to a share, the share's rows are the min(n, k) most recently created of the n rows
\* written so far, rows created in the same second ranking by insertion order: the rows
\* left are the last min(|before| + 1, k) of the rows before followed by the new row.
C11_KeepsNewest ==
    [][(AppendsVersion /\ versionsMax > 0) =>
          LET before == VersionsOf(versions, WrittenShare)
              written == AddShareVersion(before, nextVer, WrittenShare,
                                         shares'[WrittenShare].schema, <<>>, now)
          IN VersionsOf(versions', WrittenShare)
                 = LastN(written, Min(Len(written), versionsMax))]_vars

RowsOf(vers) == {vers[i] : i \in 1..Len(vers)}

\* This step answers a create, an update or a restore of a share with success.
SuccessfulWrite ==
    /\ last.op = "idle"
    /\ last'.op \in VersionWrites
    /\ last'.status \in {200, 201}

\* The request of this step carries a schema (a create and a restore always do).
CarriesSchema == last'.op = "PUT /shares/{id}" => last'.req.schema # <<>>

\* One version row is inserted for the share written, with the share's live schema; the
\* row is in the table after the step unless retention removed it.
AppendsOne ==
    /\ nextVer' = nextVer + 1
    /\ \A r \in RowsOf(versions') \ RowsOf(versions) :
           /\ r.id = nextVer
           /\ r.shareId = WrittenShare
           /\ r.schema = shares'[WrittenShare].schema
    /\ \/ \E r \in RowsOf(versions') : r.id = nextVer
       \/ /\ versionsMax > 0
          /\ Len(VersionsOf(versions, WrittenShare)) + 1 > versionsMax

\* Rows leave the table only through retention: they are rows of the share written, and
\* the share would otherwise hold more than the retention count.
OnlyPruned ==
    \A r \in RowsOf(versions) \ RowsOf(versions') :
        /\ r.shareId = WrittenShare
        /\ versionsMax > 0
        /\ Len(VersionsOf(versions, WrittenShare)) + 1 > versionsMax

ReadsBack ==
    /\ (last.op = "idle" /\ last'.op = "POST /shares" /\ last'.status = 201) =>
           /\ shares'[nextShare].schema = last'.req.schema
           /\ \E r \in RowsOf(versions') :
                  r.id = nextVer /\ r.shareId = nextShare /\ r.schema = last'.req.schema
    /\ (last.op = "idle" /\ last'.op = "GET /shares/{id}" /\ last'.status = 200) =>
           last'.body = shares[last'.req.id].schema

\* The first share has been created (version 1) and updated once (version 2), and now a
\* request that carries a live session asks to restore version 1.
RestoreAfterUpdate ==
    /\ last.op = "idle"
    /\ last'.op = "POST /shares/{id}/versions/{v}/restore"
    /\ last'.req.id = 1
    /\ last'.req.ver = 1
    /\ nextShare = 2
    /\ nextVer = 3
    /\ LiveSessions(last'.req.tok, now) # {}

\* The restore succeeds: the live schema is that of version 1 again, a new row with that
\* schema is in the table, and every earlier row is still there.
RoundTrips ==
    /\ last'.status = 200
    /\ \E first \in RowsOf(versions) :
          /\ first.id = 1
          /\ shares'[1].schema = first.schema
          /\ \E r \in RowsOf(versions') :
                 r.id = nextVer /\ r.shareId = 1 /\ r.schema = first.schema
    /\ RowsOf(versions) \subseteq RowsOf(versions')

\* C13 (as stated): a share created with schema S reads back S; after it is updated to
\* S2 and its first version restored, the live schema is S again, a new version row with
\* schema S has been appended, and the earlier version rows are still present.
C13_RoundTrip ==
    [][ReadsBack /\ (RestoreAfterUpdate => RoundTrips)]_vars

\* C13 (amended): the same, when retention is disabled or keeps at least the three rows
\* of the create, the update and the restore.
C13_RoundTripUnpruned ==
    [][/\ ReadsBack
       /\ (RestoreAfterUpdate /\ (versionsMax = 0 \/ versionsMax >= 3)) => RoundTrips]_vars

\* The first share, created with one schema and updated to the other, has had its first
\* version restored: three rows, the live schema that of the first.
C13_Witness ==
    /\ last.op = "POST /shares/{id}/versions/{v}/restore"
    /\ last.status = 200
    /\ last.req.ver = 1
    /\ nextShare = 2
    /\ nextVer = 4
    /\ Len(versions) = 3
    /\ versions[1].schema = <<"EDS", 1>>
    /\ versions[2].schema = <<"EDS", 2>>
    /\ versions[3].schema = <<"EDS", 1>>
    /\ shares[1].schema = <<"EDS", 1>>

(***************************************************************************)
(* C14..C18: teams, invites and memberships (SpecTeams).                   *)
(***************************************************************************)
\* This step answers a request to accept an invite.
AcceptAnswered == last.op = "idle" /\ last'.op = "POST /invites/accept"

AcceptedBy(inv, token, sub) ==
    token \in DOMAIN inv /\ inv[token].acceptedBySub = [valid |-> TRUE, v |-> TrimSpace(sub)]

RowsFor(mbs, teamID, sub) == {m \in mbs : m.teamId = teamID /\ m.userSub = TrimSpace(sub)}

\* The request answered accepts the invite for its caller.
FirstAccept ==
    /\ AcceptAnswered
    /\ ~AcceptedBy(invites, last'.req.id, last'.req.bearer.sub)
    /\ AcceptedBy(invites', last'.req.id, last'.req.bearer.sub)

\* The request answered is made by the user who has accepted the invite before.
RepeatAccept ==
    /\ AcceptAnswered
    /\ AcceptedBy(invites, last'.req.id, last'.req.bearer.sub)

\* The request answered read the invite in this step: its transaction began after every
\* transaction committed so far.
ReadInThisStep == accepting' = accepting

\* The answer is 200 with the invite's team, and the caller has one membership row in it.
JoinedOnce ==
    LET teamID == invites'[last'.req.id].teamId IN
    /\ last'.status = 200
    /\ last'.body = <<teamID>>
    /\ Cardinality(RowsFor(members', teamID, last'.req.bearer.sub)) = 1

\* C14 (as stated): accepting the same invite twice by the same sub returns the same team
\* id both times without error and leaves exactly one membership row for (teamId, sub).
C14_TwiceAnyTiming ==
    [][(FirstAccept \/ RepeatAccept) => JoinedOnce]_vars

\* C14 (amended): the same, for a second request that reads the invite after the first
\* acceptance has committed; it changes neither invites nor members.
C14_TwiceInTurn ==
    [][/\ (FirstAccept \/ (RepeatAccept /\ ReadInThisStep)) => JoinedOnce
       /\ (RepeatAccept /\ ReadInThisStep) => UNCHANGED <<invites, members>>]_vars

\* User b, who accepted the invite in an earlier second, has asked to accept it again
\* before its expiry, with no other acceptance in flight, and is answered 200.
C14_Witness ==
    /\ last.op = "POST /invites/accept"
    /\ last.status = 200
    /\ last.req.bearer.sub = <<"b">>
    /\ accepting = [p \in Clients |-> NoTx]
    /\ updating = [p \in Clients |-> NoUpdate]
    /\ AcceptedBy(invites, last.req.id, <<"b">>)
    /\ invites[last.req.id].acceptedAt.v < Unix(last.at)
    /\ Unix(last.at) <= invites[last.req.id].expiresAt
    /\ Cardinality(RowsFor(members, invites[last.req.id].teamId, <<"b">>)) = 1

\* The membership row an acceptance by sub of an invite to teamID inserts at time t.
MemberRow(teamID, sub, t) ==
    [teamId |-> teamID, userSub |-> TrimSpace(sub), role |-> "member", createdAt |-> Unix(t)]

\* C15: an invite is accepted at most once, however the acceptances of different users
\* interleave: once acceptedBySub is set the invite row never changes, and memberships
\* change only in the step that sets it, by the one row of the accepting user.
C15_AcceptedOnce ==
    [][/\ \A tok \in DOMAIN invites :
              invites[tok].acceptedAt.valid =>
                  tok \in DOMAIN invites' /\ invites'[tok] = invites[tok]
       /\ AcceptAnswered =>
              \/ UNCHANGED <<invites, members>>
              \/ /\ FirstAccept
                 /\ ~invites[last'.req.id].acceptedAt.valid
                 /\ \A tok \in DOMAIN invites \ {last'.req.id} : invites'[tok] = invites[tok]
                 /\ members' \subseteq members \cup
                        {MemberRow(invites[last'.req.id].teamId, last'.req.bearer.sub,
                                   last'.at)}]_vars

\* User c read the invite while it was unaccepted and unexpired, user b's acceptance
\* committed first, and c is answered 404 and has no membership.
C15_Witness ==
    /\ last.op = "POST /invites/accept"
    /\ last.status = 404
    /\ last.req.bearer.sub = <<"c">>
    /\ last.req.id \in DOMAIN invites
    /\ Unix(last.at) <= invites[last.req.id].expiresAt
    /\ AcceptedBy(invites, last.req.id, <<"b">>)
    /\ RowsFor(members, invites[last.req.id].teamId, <<"c">>) = {}
    /\ Cardinality(RowsFor(members, invites[last.req.id].teamId, <<"b">>)) = 1

\* The request answered is refused as not-found and writes neither invites nor members.
Refused ==
    /\ last'.status = 404
    /\ last'.code = "not_found"
    /\ UNCHANGED <<invites, members>>

\* The request answered names an invite that is unaccepted.
AcceptsUnaccepted ==
    /\ AcceptAnswered
    /\ last'.req.id \in DOMAIN invites
    /\ ~invites[last'.req.id].acceptedAt.valid

\* The request answered names a token no invite has.
AcceptsUnknown ==
    /\ AcceptAnswered
    /\ last'.req.id # 0
    /\ last'.req.id \notin DOMAIN invites

\* C16 (as stated): accepting an unaccepted invite at an instant after its expiresAt is
\* refused as not-found, the invite stays unaccepted and no membership row is created;
\* an unknown token is refused as not-found.
C16_AfterExpiryInstant ==
    [][/\ (AcceptsUnaccepted /\ last'.at > Seconds(invites[last'.req.id].expiresAt)) => Refused
       /\ AcceptsUnknown => Refused]_vars

\* C16 (amended): the same for a request made in a Unix second after that of expiresAt;
\* within the second of expiresAt the invite is still accepted.
C16_AfterExpirySecond ==
    [][/\ (AcceptsUnaccepted /\ Unix(last'.at) > invites[last'.req.id].expiresAt) => Refused
       /\ AcceptsUnknown => Refused]_vars

\* User b asked to accept the invite, unaccepted, in the second after its expiry: the
\* answer is 404, the invite is unaccepted and b has no membership.
C16_Witness ==
    /\ last.op = "POST /invites/accept"
    /\ last.status = 404
    /\ last.req.bearer.sub = <<"b">>
    /\ last.req.id \in DOMAIN invites
    /\ ~invites[last.req.id].acceptedAt.valid
    /\ ~invites[last.req.id].acceptedBySub.valid
    /\ Unix(last.at) > invites[last.req.id].expiresAt
    /\ RowsFor(members, invites[last.req.id].teamId, <<"b">>) = {}

\* C17: team creation and invite acceptance are all-or-nothing.  In every state each
\* team has the membership row of its owner with role owner, every membership row is of
\* an existing team, an invite is marked accepted (both columns at once) only with the
\* membership of the accepting user in its team present, and every row with role member
\* is that of an accepted invite, written at the time of its acceptance.
C17_AllOrNothing ==
    /\ \A t \in DOMAIN teams :
           \E m \in members :
               m.teamId = t /\ m.userSub = teams[t].ownerSub /\ m.role = "owner"
    /\ \A m \in members : m.teamId \in DOMAIN teams
    /\ \A tok \in DOMAIN invites :
           LET inv == invites[tok] IN
           /\ inv.acceptedAt.valid <=> inv.acceptedBySub.valid
           /\ inv.acceptedAt.valid => RowsFor(members, inv.teamId, inv.acceptedBySub.v) # {}
    /\ \A m \in members :
           m.role = "member" =>
               \E tok \in DOMAIN invites :
                   /\ invites[tok].teamId = m.teamId
                   /\ invites[tok].acceptedBySub = [valid |-> TRUE, v |-> m.userSub]
                   /\ invites[tok].acceptedAt = [valid |-> TRUE, v |-> m.createdAt]

\* A team with its owner's row, an invite accepted by b with b's member row, while the
\* transaction of another client is open between its read and its update.
C17_Witness ==
    /\ \E t \in DOMAIN teams : \E m \in members : m.teamId = t /\ m.role = "owner"
    /\ \E tok \in DOMAIN invites :
           /\ AcceptedBy(invites, tok, <<"b">>)
           /\ \E m \in RowsFor(members, invites[tok].teamId, <<"b">>) : m.role = "member"
    /\ \E p \in Clients : accepting[p].pc = "read"

\* C18: after any sequence and interleaving of team creations and invite acceptances
\* there is at most one membership row per (teamId, userSub).
C18_OneRowPerMember ==
    \A m1 \in members, m2 \in members :
        (m1.teamId = m2.teamId /\ m1.userSub = m2.userSub) => m1 = m2

\* The owner of the team has accepted the team's invite: the owner's row is the only row
\* of (teamId, owner).
C18_Witness ==
    \E tok \in DOMAIN invites :
        LET t == invites[tok].teamId IN
        /\ AcceptedBy(invites, tok, teams[t].ownerSub)
        /\ RowsFor(members, t, teams[t].ownerSub) =
               {[teamId |-> t, userSub |-> teams[t].ownerSub, role |-> "owner",
                 createdAt |-> teams[t].createdAt]}

(***************************************************************************)
(* C19, C20: shares of a team.                                             *)
(***************************************************************************)
\* C19: in every state, in OIDC mode and in legacy mode, every share with a non-null
\* teamId references an existing team.
C19_TeamExists ==
    \A id \in DOMAIN shares : shares[id].teamId # 0 => shares[id].teamId \in DOMAIN teams

\* This step answers a request to create a share, in OIDC mode.
OidcCreate == oidc /\ last.op = "idle" /\ last'.op = "POST /shares"

\* The share the step stores: none, or the one share of the request, owned by owner, for
\* a caller with a verified token who is a member of the team named, if one is named.
StoresFor(owner) ==
    shares' # shares =>
        /\ last'.status = 201
        /\ ValidBearer(last'.req.bearer)
        /\ DOMAIN shares' = DOMAIN shares \cup {nextShare}
        /\ \A id \in DOMAIN shares : shares'[id] = shares[id]
        /\ shares'[nextShare].teamId = last'.req.teamId
        /\ shares'[nextShare].ownerSub = owner
        /\ last'.req.teamId # 0 =>
               RowsFor(members, last'.req.teamId, last'.req.bearer.sub) # {}

\* A well-formed request of a verified caller that names a team the caller is not a
\* member of is answered 403 forbidden, and no share, version or session row is written.
NonMemberRefused ==
    (/\ ValidBearer(last'.req.bearer)
     /\ SchemaTagOK(last'.req.schema)
     /\ last'.req.teamId # 0
     /\ RowsFor(members, last'.req.teamId, last'.req.bearer.sub) = {}) =>
        /\ last'.status = 403
        /\ last'.code = "forbidden"
        /\ UNCHANGED <<shares, versions, sessions>>

\* C20 (as stated): in OIDC mode a share created with a teamId is stored only if the
\* caller is a member of that team at creation time, otherwise the request is refused
\* 403 and no share, version or session row is created; the stored ownerSub equals the
\* token's subject.
C20_OwnerIsSubject ==
    [][OidcCreate => StoresFor(last'.req.bearer.sub) /\ NonMemberRefused]_vars

\* C20 (amended): the same, the stored ownerSub being the token's subject with leading
\* and trailing white space removed.
C20_OwnerIsTrimmedSubject ==
    [][OidcCreate => StoresFor(TrimSpace(last'.req.bearer.sub)) /\ NonMemberRefused]_vars

\* User b, a member of the team by an accepted invite and not its owner, has created a
\* share of the team and owns it.
C20_Witness ==
    /\ oidc
    /\ last.op = "POST /shares"
    /\ last.status = 201
    /\ last.req.bearer.sub = <<"b">>
    /\ last.req.teamId \in DOMAIN teams
    /\ \E m \in RowsFor(members, last.req.teamId, <<"b">>) : m.role = "member"
    /\ \E id \in DOMAIN shares :
           /\ last.body = <<id>>
           /\ shares[id].teamId = last.req.teamId
           /\ shares[id].ownerSub = <<"b">>

(***************************************************************************)
(* C21: validation of the body (SpecBodies).                               *)
(***************************************************************************)
ShareBodyOps == {"POST /shares", "PUT /shares/{id}"}

UserBodyOps == {"PUT /admin/users/{sub}", "POST /teams", "POST /teams/{id}/invites",
                "POST /invites/accept"}

\* The body of the request answered is invalid: it does not decode, or a required field
\* is missing, or the schema does not begin with EDS or TXT.
InvalidBody ==
    LET r == last'.req
        tagged == r.schema # <<>> /\ r.schema[1] \in {"EDS", "TXT"}
    IN
    \/ r.bad
    \/ last'.op = "POST /shares" /\ ~tagged
    \/ last'.op = "PUT /shares/{id}" /\ r.schema # <<>> /\ ~tagged
    \/ last'.op = "PUT /shares/{id}" /\ r.schema = <<>> /\ ~r.name.set
    \/ last'.op = "POST /teams" /\ TrimSpace(r.name.v) = <<>>
    \/ last'.op = "POST /invites/accept" /\ r.id = 0

\* C21 (as stated): on every endpoint that accepts a body, a request with an invalid body
\* is answered 400 and the store is as it was.
C21_ValidationFirst ==
    [][(last.op = "idle" /\ last'.op \in ShareBodyOps \cup UserBodyOps /\ InvalidBody) =>
           last'.status = 400 /\ UNCHANGED store]_vars

\* C21 (amended): on share creation and update a request with an invalid body is answered
\* 400 and the store is as it was, whatever its credentials and whether or not the share
\* exists.  The admin, team and invite endpoints authorize first: a request with an
\* invalid body is answered 401 unless it carries a verified token in OIDC mode, and
\* otherwise 403 or 400, the user row of the caller having been upserted and nothing else
\* written.
C21_ValidationFirstOnShares ==
    [][/\ (last.op = "idle" /\ last'.op \in ShareBodyOps /\ InvalidBody) =>
              last'.status = 400 /\ UNCHANGED store
       /\ (last.op = "idle" /\ last'.op \in UserBodyOps /\ InvalidBody) =>
              /\ last'.status = IF oidc /\ ValidBearer(last'.req.bearer)
                                THEN (IF last'.status = 403 THEN 403 ELSE 400)
                                ELSE 401
              /\ UNCHANGED <<sessions, shares, versions, teams, members, invites>>
              /\ \A k \in DOMAIN users : k # TrimSpace(last'.req.bearer.sub) =>
                     k \in DOMAIN users' /\ users'[k] = users[k]]_vars

\* A team creation with a blank name by a caller seen for the first time is answered 400,
\* and the caller's user row has been written.
C21_Witness ==
    /\ last.op = "POST /teams"
    /\ last.status = 400
    /\ last.code = "missing_name"
    /\ teams = <<>>
    /\ DOMAIN users = {TrimSpace(last.req.bearer.sub)}

(***************************************************************************)
(* C22: the listing endpoints (SpecListing).                               *)
(***************************************************************************)
ListOps == {"GET /shares/mine", "GET /shares/{id}/versions", "GET /teams",
            "GET /admin/users", "GET /admin/shares"}

ListAnswered == last.op = "idle" /\ last'.op \in ListOps

\* C22 (as stated): a listing request leaves the store as it was.
C22_ListingReadOnly == [][ListAnswered => UNCHANGED store]_vars

\* C22 (amended): a listing request leaves shares, versions, teams, members and invites
\* as they were.  With OIDC enabled it leaves the sessions as they were, and a request
\* with a verified token upserts the caller's user row and no other, while a request
\* without one leaves the users as they were.  In legacy mode it leaves the users as they
\* were, and the only session row it can delete is the expired row of the cookie sent
\* with a version listing, which is then answered 401.
C22_ListingWritesCaller ==
    [][ListAnswered =>
          /\ UNCHANGED <<shares, versions, teams, members, invites>>
          /\ oidc =>
                /\ UNCHANGED sessions
                /\ ~ValidBearer(last'.req.bearer) => UNCHANGED users
                /\ ValidBearer(last'.req.bearer) =>
                      /\ TrimSpace(last'.req.bearer.sub) \in DOMAIN users'
                      /\ users'[TrimSpace(last'.req.bearer.sub)].lastSeenAt = Unix(now)
                      /\ \A k \in DOMAIN users : k # TrimSpace(last'.req.bearer.sub) =>
                             k \in DOMAIN users' /\ users'[k] = users[k]
          /\ ~oidc =>
                /\ UNCHANGED users
                /\ sessions' \subseteq sessions
                /\ \A s \in sessions \ sessions' :
                      /\ last'.op = "GET /shares/{id}/versions"
                      /\ last'.status = 401
                      /\ s.token = last'.req.tok
                      /\ s.expiresAt <= Unix(now)]_vars

\* A listing of the caller's shares is answered 200 to a caller whose user row was
\* created by that request; a version listing is answered 401 to a cookie whose session
\* row it has deleted.
C22_Witness ==
    \/ /\ last.op = "GET /shares/mine"
       /\ last.status = 200
       /\ DOMAIN users = {last.who}
       /\ now > 0
       /\ users[last.who].createdAt = Unix(last.at)
       /\ Unix(last.at) > 0
    \/ /\ last.op = "GET /shares/{id}/versions"
       /\ last.status = 401
       /\ last.req.tok < nextTok
       /\ \A s \in sessions : s.token # last.req.tok /\ s.expiresAt <= Unix(last.at)
       /\ sessions # {}

(***************************************************************************)
(* C23: verification failures (SpecBearers).                               *)
(***************************************************************************)
\* The token passes every test of the verification under the deployment's configuration.
Verified(b) ==
    /\ b.kind = "jwt"
    /\ TrimSpace(b.sub) # <<>>
    /\ b.iss \in {<<"i">>, <<"i", "/">>}
    /\ \E i \in 1..Len(b.aud) : b.aud[i] = <<"c">>

\* The endpoints whose first test is the caller's identity.
UserOps == {"GET /me", "GET /shares/mine", "GET /shares/{id}/versions", "DELETE /shares/{id}",
            "GET /admin/users", "GET /teams", "POST /teams", "POST /teams/{id}/invites",
            "POST /invites/accept"}

Explicit(cfg) ==
    LET parts == Split(cfg.OIDCAudience, ",") IN
    {TrimSpace(parts[i]) : i \in 1..Len(parts)} \ {<<>>}

AllowList(cfg) == IF Explicit(cfg) = {} THEN {TrimSpace(cfg.OIDCClientID)} ELSE Explicit(cfg)

\* The configurations the verifier may have been built from.
BuiltFrom == {c \in Configs : NewOIDCVerifier(c) = verifier}

Accepted == last.op = "GET /me" /\ last.status = 200

\* C28: a token is accepted only if its issuer, stripped of trailing slashes, is the
\* configured issuer stripped of trailing slashes, and one of its audiences is in the
\* allow-list: the non-blank explicit audiences, or the client id when there is none.
C28_IssuerAndAudience ==
    Accepted =>
        \A c \in BuiltFrom :
            /\ TrimRightSlash(last.req.bearer.iss) = TrimRightSlash(TrimSpace(c.OIDCIssuerURL))
            /\ last.req.bearer.aud # <<>>
            /\ \E i \in 1..Len(last.req.bearer.aud) : last.req.bearer.aud[i] \in AllowList(c)

\* A token was accepted whose issuer ends in two slashes and whose second audience is the
\* client id, by a verifier with no explicit audience.
C28_Witness ==
    /\ Accepted
    /\ last.req.bearer.iss = <<"i", "/", "/">>
    /\ last.req.bearer.aud = << <<"e">>, <<"c">> >>
    /\ verifier.audiences = << <<"c">> >>
    /\ [OIDCIssuerURL |-> <<"i", "/">>, OIDCClientID |-> <<"c", " ">>,
        OIDCAudience |-> <<",">>] \in BuiltFrom

(***************************************************************************)
(* C24: reading a share that does not exist (SpecRead).                    *)
(***************************************************************************)
\* C24: a GET of a share id that is not in the table is answered 404 not_found in either
\* mode, whatever password, cookie or bearer token the request carries, and writes
\* nothing.
C24_MissingIs404 ==
    [][(last.op = "idle" /\ last'.op = "GET /shares/{id}"
                         /\ last'.req.id \notin DOMAIN shares) =>
           /\ last'.status = 404
           /\ last'.code = "not_found"
           /\ UNCHANGED store]_vars

\* A share that is not there is read: 404 for a deleted share with the verified token of
\* its former owner (OIDC), or for an id never given out with the server password and the
\* cookie of a live session (legacy).
C24_Witness ==
    /\ last.op = "GET /shares/{id}"
    /\ last.status = 404
    /\ \/ /\ oidc
          /\ ValidBearer(last.req.bearer)
          /\ last.req.id \in 1..(nextShare - 1)
       \/ /\ ~oidc
          /\ last.req.pw = apiPassword
          /\ \E s \in sessions : s.token = last.req.tok /\ s.expiresAt > Unix(now)

(***************************************************************************)
(* C25: failures of best-effort side effects (SpecFaults).                 *)
(***************************************************************************)
\* The requests of InFaults.
Probes ==
    {[Req0 EXCEPT !.id = id, !.ver = 1, !.schema = schema, !.pw = c.pw, !.tok = c.tok,
                  !.bearer = bearer] :
        id \in InFaults.ids, schema \in InFaults.schemas, c \in InFaults.creds,
        bearer \in InFaults.bearers}

\* Two outcomes of a handler with the same status and the same shares table.
SameAnswer(o1, o2) == o1.status = o2.status /\ o1.shares = o2.shares

\* C25: whichever best-effort store calls fail, a request gets the status it gets when
\* none fails, and the shares table the handler leaves is the same: from one database
\* state, the outcome under the failures before a change of the failing calls and the
\* outcome under those after it agree, for every request to every handler.
C25_FailuresUnseen ==
    [][(last.op = "idle" /\ faulty' # faulty) =>
          \A req \in Probes :
              /\ SameAnswer(handleSharesOut(req), handleSharesOut(req)')
              /\ SameAnswer(handleUpdateShareOut(req), handleUpdateShareOut(req)')
              /\ SameAnswer(handleShareVersionsRestoreOut(req),
                            handleShareVersionsRestoreOut(req)')
              /\ SameAnswer(handleMeOut(req), handleMeOut(req)')
              /\ SameAnswer(handleAdminUsersOut(req), handleAdminUsersOut(req)')]_vars

(***************************************************************************)
(* C26: updatedAt under concurrent updates and restores (SpecUpdates).     *)
(***************************************************************************)
\* C26: in every step, the updatedAt of each share that stays is not below what it was,
\* and not below the share's createdAt.
C26_UpdatedAtMonotone ==
    [][\A id \in DOMAIN shares \cap DOMAIN shares' :
          /\ shares'[id].updatedAt >= shares[id].updatedAt
          /\ shares'[id].updatedAt >= shares'[id].createdAt]_vars

(***************************************************************************)
(* C27: lastSeenAt under concurrent requests (SpecSeen).                   *)
(***************************************************************************)
\* C27: in every step, the lastSeenAt of each user is not below what it was.
C27_LastSeenMonotone ==
    [][\A k \in DOMAIN users :
          k \in DOMAIN users' /\ users'[k].lastSeenAt >= users[k].lastSeenAt]_vars

(***************************************************************************)
(* C29: cleanup of expired sessions (SpecCleanup).                         *)
(***************************************************************************)
\* The request answered in this step got as far as its authorization check.
ChecksAuthorization ==
    /\ last.op = "idle"
    /\ last'.op # "idle"
    /\ last'.code \notin {"bad_json", "missing_schema", "invalid_schema", "missing_update"}
    /\ ~(last'.op = "PUT /shares/{id}" /\ last'.code = "not_found")

Expired(s) == s.expiresAt <= Unix(now)

\* C29 (as stated): after any authorization check at time now no session row with
\* expiresAt <= now remains, and every other row is as it was.
C29_CleanAfterEveryCheck ==
    [][ChecksAuthorization =>
          /\ \A s \in sessions' : ~Expired(s)
          /\ \A s \in sessions : ~Expired(s) => s \in sessions']_vars

\* C29 (amended): the cleanup runs at the start of requireAuth, the legacy authorization
\* of share creation and update: after those no session row with expiresAt <= now
\* remains, every other row is as it was, and the only row added is the session issued.
\* The legacy session check of the version endpoints deletes at most the expired row of
\* the cookie presented, and the bearer checks of OIDC mode leave the sessions as they
\* were.
C29_CleanAfterRequireAuth ==
    [][ChecksAuthorization =>
          /\ \A s \in sessions : ~Expired(s) => s \in sessions'
          /\ (~oidc /\ last'.op \in {"POST /shares", "PUT /shares/{id}"}) =>
                /\ \A s \in sessions' : ~Expired(s)
                /\ \A s \in sessions' \ sessions : s.token = nextTok /\ last'.cookie = nextTok
          /\ (~oidc /\ last'.op \notin {"POST /shares", "PUT /shares/{id}"}) =>
                /\ sessions' \subseteq sessions
                /\ \A s \in sessions \ sessions' : s.token = last'.req.tok
          /\ oidc => UNCHANGED sessions]_vars

\* A legacy update by password, answered 200 in a second in which a session issued before
\* had expired: that row is gone, and the rows left are live.
C29_Witness ==
    /\ ~oidc
    /\ last.op = "PUT /shares/{id}"
    /\ last.status = 200
    /\ last.req.tok = 0
    /\ Unix(last.at) >= SessionTTL
    /\ \E t \in 1..(nextTok - 1) : \A s \in sessions : s.token # t
    /\ sessions # {}
    /\ \A s \in sessions : s.expiresAt > Unix(last.at)

(***************************************************************************)
(* C30: the debounce of the key-set refresh (SpecKeys).                    *)
(***************************************************************************)
\* Client p sends a key-set request in this step.
FetchSent(p) == updating[p].pc = "keys" /\ updating'[p].pc = "fetch"

\* C30: the key set is fetched again only for a token whose key id the cache lacks and
\* when more than 30 seconds have passed since the last fetch was sent, so that no two
\* fetches are sent within one debounce interval, whatever the interleaving of the
\* requests and whether or not the fetches succeed.
C30_OneFetchPerInterval ==
    [][\A p \in Clients :
          FetchSent(p) =>
             /\ TrimSpace(updating[p].req.bearer.kid) \notin verifier.keys
             /\ now - verifier.fetches[Len(verifier.fetches)] > Seconds(KeysDebounce)]_vars

(***************************************************************************)
(* C31: a refresh that fails keeps the cached keys (SpecRefresh).          *)
(***************************************************************************)
\* Client p's refreshKeys returns in this step, with an error (stale) or without.
RefreshFailed(p) == updating[p].pc = "fetch" /\ updating'[p].pc = "stale"
RefreshDone(p) == updating[p].pc = "fetch" /\ updating'[p].pc = "reread"

\* C31: a refresh that fails leaves the cached key set as it was, so that every token
\* verifies after it as it did before; the cached set is replaced only by a refresh that
\* yielded a usable key, and is never empty once the verifier is constructed.
C31_StaleKeysKept ==
    [][/\ verifier'.keys # {}
       /\ \A p \in Clients :
             RefreshFailed(p) =>
                /\ verifier'.keys = verifier.keys
                /\ verifier'.keysFetched = verifier.keysFetched
                /\ \A tok \in InKeys.bearers :
                      VerifyToken(verifier', tok) = VerifyToken(verifier, tok)
       /\ verifier'.keys # verifier.keys => \E p \in Clients : RefreshDone(p)]_vars

\* A refresh has failed, and a token signed with a key of the cache is answered 200.
C31_Witness ==
    /\ \E p \in Clients : updating[p].pc = "stale"
    /\ last.op = "GET /me"
    /\ last.status = 200
    /\ TrimSpace(last.req.bearer.kid) \in verifier.keys
    /\ verifier.keysFetched = 0

(***************************************************************************)
(* C32: one response per request, writes only with a success (SpecUpdates).*)
(***************************************************************************)
\* A request is answered in this step.
Answered == last.op = "idle" /\ last'.op # "idle"

\* C32: every request is answered with exactly one response, and the share rows change
\* only in a request whose response is a success, also when update and restore evaluate
\* the authorization a second time after their write.
C32_OneResponse ==
    [][Answered =>
          /\ last'.writes = 1
          /\ shares' # shares => last'.status \in 200..299]_vars

(***************************************************************************)
(* C33: an accepted invite makes its acceptor a member (SpecTeams).        *)
(***************************************************************************)
\* C33: whenever POST /invites/accept answers 200 with a team id to caller S, the team
\* has a membership row of S (its subject trimmed, as the store keeps it) afterwards.
C33_JoinedIsMember ==
    [][(Answered /\ last'.op = "POST /invites/accept" /\ last'.status = 200) =>
          \E m \in members' :
              m.teamId = last'.body[1] /\ m.userSub = TrimSpace(last'.who)]_vars

(***************************************************************************)
(* C34: a rejected request writes no share and no version (SpecUpdates).   *)
(***************************************************************************)
\* C34: a request answered with a 4xx status leaves the share rows and the version rows
\* as they were.
C34_RejectedWritesNothing ==
    [][(Answered /\ last'.status \in 400..499) =>
          /\ shares' = shares
          /\ versions' = versions]_vars

(***************************************************************************)
(* C35: retention under updates and restores side by side (SpecPrune).     *)
(***************************************************************************)
\* C35: with retention k > 0, once every update and restore in flight has completed,
\* no pruning having failed, each share has at most k version rows.
C35_AtMostKeep ==
    (/\ versionsMax > 0
     /\ "prune" \notin faulty
     /\ \A p \in Clients : updating[p] = NoUpdate)
    => \A id \in DOMAIN shares : Len(VersionsOf(versions, id)) <= versionsMax

\* Every version id has been given out, to the creation and to two requests after it,
\* all requests are answered, and the share keeps one row under retention 1.
C35_Witness ==
    /\ versionsMax = 1
    /\ nextVer = MaxVersions + 1
    /\ \A p \in Clients : updating[p] = NoUpdate
    /\ last.op = "POST /shares/{id}/versions/{v}/restore"
    /\ last.status = 200
    /\ Len(VersionsOf(versions, 1)) = 1

(***************************************************************************)
(* C36: only the owner of a team issues its invites (SpecInvites).         *)
(***************************************************************************)
\* The caller of the request answered in this step has the role owner in team id.
CallerOwns(id) ==
    \E m \in members :
        m.teamId = id /\ m.userSub = TrimSpace(last'.req.bearer.sub) /\ m.role = "owner"

\* C36: an invite row is created only by a request of a caller whose role in the team is
\* owner; a verified caller who is a plain member or no member is answered 403 forbidden
\* and no invite row is created; every invite row references a team that exists.
C36_OwnerInvites ==
    [][Answered =>
          /\ DOMAIN invites' # DOMAIN invites =>
                /\ last'.op = "POST /teams/{id}/invites"
                /\ last'.status = 201
                /\ VerifyRequest(last'.req.bearer).ok
                /\ CallerOwns(last'.req.teamId)
          /\ (/\ last'.op = "POST /teams/{id}/invites"
              /\ VerifyRequest(last'.req.bearer).ok
              /\ ~CallerOwns(last'.req.teamId)) =>
                /\ last'.status = 403
                /\ last'.code = "forbidden"
                /\ invites' = invites
          /\ \A tok \in DOMAIN invites' : invites'[tok].teamId \in DOMAIN teams']_vars

\* A user who joined the team with an invite asks for an invite and is refused.
C36_Witness ==
    /\ last.op = "POST /teams/{id}/invites"
    /\ last.status = 403
    /\ \E m \in members :
          m.teamId = last.req.teamId /\ m.userSub = last.who /\ m.role = "member"

(***************************************************************************)
(* C37: acceptance leaves existing memberships alone (SpecTeams).          *)
(***************************************************************************)
\* The caller of the accept request answered in this step was a member of team id.
AcceptorWasMember(id) ==
    \E m \in members : m.teamId = id /\ m.userSub = TrimSpace(last'.req.bearer.sub)

\* C37: accepting an invite changes no membership row that exists: when the acceptor is
\* a member of the team already, the members are the same after the acceptance, and every
\* team keeps the owner row of its owner.
C37_MembershipKept ==
    [][/\ members \subseteq members'
       /\ (/\ Answered
           /\ last'.op = "POST /invites/accept"
           /\ last'.status = 200
           /\ AcceptorWasMember(last'.body[1])) => members' = members
       /\ \A id \in DOMAIN teams' :
             \E m \in members' :
                 m.teamId = id /\ m.userSub = teams'[id].ownerSub /\ m.role = "owner"]_vars

\* The owner of a team has accepted an invite of the team and is its owner still.
C37_Witness ==
    /\ last.op = "POST /invites/accept"
    /\ last.status = 200
    /\ invites[last.req.id].acceptedBySub.v = last.who
    /\ \E m \in members :
          m.teamId = last.body[1] /\ m.userSub = last.who /\ m.role = "owner"

(***************************************************************************)
(* C38: the loop of PruneShareVersions (SpecPruneLive).                    *)
(***************************************************************************)
InLoop(p) == updating[p].pc \in {"prune", "delete"}

\* Client p's pass ends with its DELETE in this step; its loop returns in this step.
PassDeletes(p) == updating[p].pc = "delete" /\ updating'[p].pc = "prune"
LoopReturns(p) == updating[p].pc = "prune" /\ updating'[p].pc = "idle"

VersionIds(vers) == {vers[i].id : i \in 1..Len(vers)}

\* C38 (as stated): the loop terminates; each pass either finds no row beyond the newest
\* keep and returns, or deletes at least one row; on return no more than keep rows of the
\* share remain; with keep <= 0 nothing is deleted.
C38_EachPassDeletes ==
    /\ \A p \in Clients : InLoop(p) ~> ~InLoop(p)
    /\ [][/\ \A p \in Clients :
                /\ PassDeletes(p) => Len(versions') < Len(versions)
                /\ LoopReturns(p) =>
                      Len(VersionsOf(versions', updating[p].req.id)) <= versionsMax
          /\ versionsMax <= 0 => VersionIds(versions) \subseteq VersionIds(versions')]_vars

\* C38 (amended): the loop terminates; each pass either finds no row beyond the newest
\* keep and returns, or ends with a DELETE after which none of the rows it selected (at
\* least one) is in the table, and which deletes at least one row unless another handler
\* pruning the share has deleted them all since the SELECT; on return no more than keep
\* rows of the share remain; with keep <= 0 nothing is deleted.
C38_EachPassClears ==
    /\ \A p \in Clients : InLoop(p) ~> ~InLoop(p)
    /\ [][/\ \A p \in Clients :
                /\ PassDeletes(p) =>
                      /\ updating[p].old # {}
                      /\ VersionIds(versions') \cap updating[p].old = {}
                      /\ VersionIds(versions') = VersionIds(versions) \ updating[p].old
                      /\ updating[p].old \cap VersionIds(versions) # {} =>
                            Len(versions') < Len(versions)
                /\ LoopReturns(p) =>
                      Len(VersionsOf(versions', updating[p].req.id)) <= versionsMax
          /\ versionsMax <= 0 => VersionIds(versions) \subseteq VersionIds(versions')]_vars

\* Passes have deleted two rows and every loop has returned: three version ids were given
\* out and one row is left, under retention 1, and the update that ran the last loop has
\* answered 200.
C38_Witness ==
    /\ versionsMax = 1
    /\ nextVer = MaxVersions + 1
    /\ Len(versions) = 1
    /\ last.op = "PUT /shares/{id}"
    /\ last.status = 200
    /\ \A p \in Clients : ~InLoop(p)

(***************************************************************************)
(* C39: one silent renewal at a time (SpecRenew).                          *)
(***************************************************************************)
Unsettled(a) == {k \in DOMAIN a.promises : ~a.promises[k].settled}

EntersRenew(c) == oidcAuth.calls[c].pc # "await" /\ oidcAuth'.calls[c].pc = "await"

\* C39: at most one renewal is in flight and it is the one the marker names; a caller
\* that finds it pending waits for that same promise and starts nothing, callers of one
\* promise receive its one result; the step that settles a promise, with a user or with
\* null after a failure, clears the marker, and the next call starts a new renewal.
C39_OneRenewal ==
    /\ [](/\ Cardinality(Unsettled(oidcAuth)) <= 1
          /\ Unsettled(oidcAuth) = {oidcAuth.renewPromise} \ {0}
          /\ \A c \in Callers :
                LET call == oidcAuth.calls[c] IN
                call.pc = "done" /\ call.promise # 0 =>
                    call.renewed = renewValue(oidcAuth.promises[call.promise]))
    /\ [][/\ \A c \in Callers :
                EntersRenew(c) =>
                    IF oidcAuth.renewPromise # 0
                    THEN /\ oidcAuth'.calls[c].promise = oidcAuth.renewPromise
                         /\ oidcAuth'.promises = oidcAuth.promises
                    ELSE /\ oidcAuth'.calls[c].promise = Len(oidcAuth.promises) + 1
                         /\ oidcAuth'.promises = Append(oidcAuth.promises, Pending)
          /\ \A k \in DOMAIN oidcAuth.promises :
                ~oidcAuth.promises[k].settled /\ oidcAuth'.promises[k].settled =>
                    oidcAuth'.renewPromise = 0]_vars

\* The first renewal has failed and settled with null, a later call has started the
\* second, and both callers wait for that one.
C39_Witness ==
    /\ Len(oidcAuth.promises) = 2
    /\ oidcAuth.promises[1].silent = "rejected"
    /\ oidcAuth.promises[1].settled
    /\ oidcAuth.promises[2].silent = "pending"
    /\ \A c \in Callers : oidcAuth.calls[c].pc = "await" /\ oidcAuth.calls[c].promise = 2
====
